---- MODULE Spec2Model ----
(***************************************************************************)
(* Bulk-import reconciliation of the Medinor API: the client store with    *)
(* its unique indexes, the client write handlers (confirmClientMigration,  *)
(* createNewClient, updateClientById, bulkUpdateClients), the analyze      *)
(* handlers of the client and product domains.                             *)
(*                                                                         *)
(* Strings are sequences of one-character strings, so that the cleaners    *)
(* and the validator are computed character by character.                  *)
(* The bulk-write error of the driver is modelled with the shape the       *)
(* handler reads: code, writeErrors[i].op (the rejected document) and      *)
(* result.nInserted (the number of documents the store inserted).          *)
(***************************************************************************)
EXTENDS Integers, Sequences, FiniteSets, TLC

VARIABLES clients, nextId, req, resp, hist, last, report,
          products, labs, categories, preq, presp, hasCategoryPath,
          rawValue, cleanValue

vars == <<clients, nextId, req, resp, hist, last, report,
          products, labs, categories, preq, presp, hasCategoryPath,
          rawValue, cleanValue>>

\* a value handed to the cleaners, and what they returned for it
cleanerVars == <<rawValue, cleanValue>>

\* the state of the product domain
productVars == <<products, labs, categories, preq, presp, hasCategoryPath>>

\* the state of the client domain
clientVars == <<clients, nextId, req, resp, hist, last, report>>

\* what the client write handlers leave alone
analysisVars == <<report, productVars, cleanerVars>>

(***************************************************************************)
(* Bounds of the model.                                                    *)
(***************************************************************************)
MaxCommit == 2
MaxRace == 1
MaxBatch == 3
MaxBulk == 1
MaxProducts == 2
MaxRawLen == 3

\* two requests in flight at a time
Reqs == {1, 2}

(***************************************************************************)
(* Characters.                                                             *)
(***************************************************************************)
UpperLetters ==
  {"A", "B", "C", "D", "E", "F", "G", "H", "I", "J", "K", "L", "M",
   "N", "O", "P", "Q", "R", "S", "T", "U", "V", "W", "X", "Y", "Z"}
LowerLetters ==
  {"a", "b", "c", "m", "e", "j", "t", "r", "u", "o", "f", "l", "s"}
DigitChars == {"0", "1", "2", "3", "4", "5", "6", "7", "8", "9"}

toUpperCase(ch) ==
  CASE ch = "a" -> "A"
    [] ch = "b" -> "B"
    [] ch = "c" -> "C"
    [] ch = "m" -> "M"
    [] ch = "e" -> "E"
    [] ch = "j" -> "J"
    [] ch = "t" -> "T"
    [] ch = "r" -> "R"
    [] ch = "u" -> "U"
    [] ch = "o" -> "O"
    [] ch = "f" -> "F"
    [] ch = "l" -> "L"
    [] ch = "s" -> "S"
    [] OTHER -> ch

toUpperCaseStr(s) == [i \in 1..Len(s) |-> toUpperCase(s[i])]

IsLetter(ch) == ch \in UpperLetters
IsDigit(ch) == ch \in DigitChars
IsAlnum(ch) == IsLetter(ch) \/ IsDigit(ch)
IsSpace(ch) == ch = " "

RECURSIVE trimLeft(_)
trimLeft(s) ==
  IF s # <<>> /\ IsSpace(Head(s)) THEN trimLeft(Tail(s)) ELSE s

RECURSIVE trimRight(_)
trimRight(s) ==
  IF s # <<>> /\ IsSpace(s[Len(s)]) THEN trimRight(SubSeq(s, 1, Len(s) - 1)) ELSE s

trim(s) == trimRight(trimLeft(s))

(***************************************************************************)
(* Raw values of an upload: a string, a number (with its decimal           *)
(* rendering) or a value of another type.                                  *)
(***************************************************************************)
Str(s) == [t |-> "string", s |-> s]
Num(s) == [t |-> "number", s |-> s]
Null == [t |-> "null", s |-> <<>>]
Undefined == [t |-> "undefined", s |-> <<>>]
Bool(s) == [t |-> "boolean", s |-> s]
\* an array, with the rendering of String(x): its elements joined by commas
Array(s) == [t |-> "array", s |-> s]
\* a plain object: String(x) is "[object Object]"
Object ==
  [t |-> "object",
   s |-> <<"[", "o", "b", "j", "e", "c", "t", " ",
           "O", "b", "j", "e", "c", "t", "]">>]

\* whether x || "" is x
Truthy(raw) ==
  CASE raw.t = "string" -> raw.s # <<>>
    [] raw.t = "number" ->
         raw.s \notin {<<"0">>, <<"-", "0">>, <<"N", "a", "N">>}
    [] raw.t = "boolean" -> raw.s = <<"t", "r", "u", "e">>
    [] raw.t \in {"array", "object"} -> TRUE
    [] OTHER -> FALSE

\* String(x || "")
StringOrEmpty(raw) == IF Truthy(raw) THEN raw.s ELSE <<>>

(***************************************************************************)
(* util/clientMigrationCleaner.js                                          *)
(***************************************************************************)
\* (variant) the characters that are kept stay where they are
cleanCodClientInPlace(rawCod) ==
  IF rawCod.t # "string" /\ rawCod.t # "number" THEN <<>>
  ELSE SelectSeq(toUpperCaseStr(rawCod.s), IsAlnum)

cleanCodClient(rawCod) ==
  IF rawCod.t # "string" /\ rawCod.t # "number" THEN <<>>
  ELSE LET saneado == SelectSeq(toUpperCaseStr(rawCod.s), IsAlnum)
           letras == SelectSeq(saneado, IsLetter)
           numeros == SelectSeq(saneado, IsDigit)
       IN letras \o numeros

cleanIdentiftri(rawCuit) ==
  IF rawCuit.t # "string" /\ rawCuit.t # "number" THEN <<>>
  ELSE SelectSeq(rawCuit.s, IsDigit)

SIN_CARGA_INICIAL ==
  <<"S", "I", "N", " ", "C", "A", "R", "G", "A", " ",
    "I", "N", "I", "C", "I", "A", "L">>

\* (variant) one blank is taken off each end
cleanRazonSociTrimOne(rawRazon) ==
  LET s == StringOrEmpty(rawRazon)
      left == IF s # <<>> /\ IsSpace(Head(s)) THEN Tail(s) ELSE s
      trimmed == IF left # <<>> /\ IsSpace(left[Len(left)])
                 THEN SubSeq(left, 1, Len(left) - 1) ELSE left
  IN IF trimmed = <<>> THEN SIN_CARGA_INICIAL
     ELSE toUpperCaseStr(trimmed)

cleanRazonSoci(rawRazon) ==
  LET trimmed == trim(StringOrEmpty(rawRazon))
  IN IF trimmed = <<>> THEN SIN_CARGA_INICIAL
     ELSE toUpperCaseStr(trimmed)

\* what the cleaners have returned for rawValue: the cleaner and its results
\* on rawValue and on its own result
NotCleaned == [by |-> "none", out |-> <<>>]

(***************************************************************************)
(* The client collection.  A row is a record                               *)
(* [id, cod_client, razon_soci, identiftri, username, password, active,    *)
(*  must_change_password]; the three unique indexes of clientSchema are    *)
(* enforced by the store on every insert and update.                       *)
(***************************************************************************)
COD1 == <<"A", "B", "C", "1", "2", "3">>
COD2 == <<"X", "Y", "Z", "7", "8", "9">>
CUIT1 == <<"2", "0", "1", "2", "3", "4", "5", "6", "7", "8", "3">>
CUIT2 == <<"2", "7", "1", "2", "3", "4", "5", "6", "7", "8", "0">>
ACME == <<"A", "C", "M", "E">>

\* (variant) no unique index on identiftri
UniqueViolationNoCuit(doc, db, selfId) ==
  \E row \in db :
     /\ row.id # selfId
     /\ \/ row.cod_client = doc.cod_client
        \/ row.username = doc.username

\* (variant) no unique index on cod_client
UniqueViolationNoCod(doc, db, selfId) ==
  \E row \in db :
     /\ row.id # selfId
     /\ \/ row.identiftri = doc.identiftri
        \/ row.username = doc.username

\* a unique index rejects a document that shares the indexed field with
\* another row
UniqueViolation(doc, db, selfId) ==
  \E row \in db :
     /\ row.id # selfId
     /\ \/ row.cod_client = doc.cod_client
        \/ row.identiftri = doc.identiftri
        \/ row.username = doc.username

\* required: true of a String path rejects undefined and the empty string
RequiredOk(doc) ==
  /\ doc.cod_client # <<>>
  /\ doc.razon_soci # <<>>
  /\ doc.identiftri # <<>>
  /\ doc.username # <<>>

\* bcrypt.hashSync(password, 10): the hash holds a salt drawn by the call,
\* so that two calls give two hashes, also for one password; salt names the
\* call
hashSync(password, salt) == [plain |-> password, salt |-> salt]

\* bcrypt.compareSync(password, hash)
compareSync(password, hash) == hash.plain = password

\* schema defaults applied to an inserted document
NewRow(doc, id) ==
  [id |-> id,
   cod_client |-> doc.cod_client,
   razon_soci |-> doc.razon_soci,
   identiftri |-> doc.identiftri,
   username |-> doc.username,
   password |-> doc.password,
   active |-> doc.active,
   must_change_password |-> TRUE]

(***************************************************************************)
(* Requests.  Each slot holds one request in flight: its handler, its      *)
(* position, its body and the locals of the handler.                       *)
(***************************************************************************)
IdleReq ==
  [kind |-> "none", pc |-> "idle", input |-> <<>>, todo |-> {},
   failed |-> {}, nIns |-> 0, k |-> 1, errs |-> 0, bulks |-> 0]

NoToken == [id |-> 0, purpose |-> "none"]

NoResp ==
  [status |-> 0, createdCount |-> 0, duplicateClients |-> <<>>,
   token |-> NoToken]

Begin(r, kind, pc, input) ==
  [req EXCEPT ![r] = [IdleReq EXCEPT !.kind = kind, !.pc = pc,
                                     !.input = input]]

Answer(r, status) == [resp EXCEPT ![r] = [NoResp EXCEPT !.status = status]]

(***************************************************************************)
(* confirmClientMigration                                                  *)
(***************************************************************************)
Rec(cod, cuit, razon) ==
  [COD_CLIENT |-> cod, IDENTIFTRI |-> cuit, RAZON_SOCI |-> razon]

CommitRecords ==
  {Rec(COD1, CUIT1, ACME), Rec(COD2, CUIT2, ACME), Rec(COD1, CUIT2, ACME),
   Rec(COD2, CUIT1, <<>>), Rec(<<"a", "b">>, CUIT1, ACME)}

RaceRecords ==
  {Rec(COD1, CUIT1, ACME), Rec(COD2, CUIT2, ACME), Rec(COD1, CUIT2, ACME)}

WriteRecords == {Rec(COD1, CUIT1, ACME), Rec(COD1, CUIT2, ACME)}

SeqsUpTo(S, n) == UNION {[1..m -> S] : m \in 0..n}

Range(L) == {L[i] : i \in 1..Len(L)}

CommitLists == SeqsUpTo(CommitRecords, MaxCommit)
RaceLists == SeqsUpTo(RaceRecords, MaxRace)
WriteLists == SeqsUpTo(WriteRecords, MaxRace)

\* the document built for one record: the username is the CUIT, trimmed
clientsToCreate(newClients) ==
  [i \in 1..Len(newClients) |->
     [cod_client |-> newClients[i].COD_CLIENT,
      razon_soci |-> newClients[i].RAZON_SOCI,
      identiftri |-> newClients[i].IDENTIFTRI,
      username |-> trim(newClients[i].IDENTIFTRI),
      password |-> hashSync(newClients[i].IDENTIFTRI, "migration"),
      active |-> FALSE]]

\* insertMany with ordered: false skips the documents that fail schema
\* validation and sends the others to the store
ValidDocs(docs) == {i \in 1..Len(docs) : RequiredOk(docs[i])}

\* the members of a set of indices in increasing order
RECURSIVE SortedIdx(_)
SortedIdx(S) ==
  IF S = {} THEN <<>>
  ELSE LET m == CHOOSE x \in S : \A y \in S : x <= y
       IN <<m>> \o SortedIdx(S \ {m})

ConfirmStart(r, newClients) ==
  /\ req[r].pc = "idle"
  /\ IF Len(newClients) = 0
     THEN /\ req' = Begin(r, "confirm", "done", newClients)
          /\ resp' = Answer(r, 400)
     ELSE LET docs == clientsToCreate(newClients)
          IN IF ValidDocs(docs) = {}
             THEN /\ req' = Begin(r, "confirm", "done", newClients)
                  /\ resp' = [resp EXCEPT ![r] =
                                [NoResp EXCEPT !.status = 201,
                                               !.createdCount = Len(docs)]]
             ELSE /\ req' = [req EXCEPT ![r] =
                               [IdleReq EXCEPT !.kind = "confirm",
                                  !.pc = "insert", !.input = newClients,
                                  !.todo = ValidDocs(docs), !.bulks = 1]]
                  /\ resp' = [resp EXCEPT ![r] = NoResp]
  /\ UNCHANGED <<clients, nextId, analysisVars>>

\* a confirm request whose body has no data member: reading newClients out
\* of req.body.data throws a TypeError, which carries no status
ConfirmNoData(r) ==
  /\ req[r].pc = "idle"
  /\ req' = Begin(r, "confirm", "done", <<>>)
  /\ resp' = Answer(r, 500)
  /\ UNCHANGED <<clients, nextId, analysisVars>>

\* (variant) an ordered bulk: the first rejected document ends the bulk
ConfirmInsertOrdered(r, i) ==
  /\ req[r].kind = "confirm" /\ req[r].pc = "insert"
  /\ i \in req[r].todo
  /\ LET doc == clientsToCreate(req[r].input)[i]
     IN IF UniqueViolation(doc, clients, 0)
        THEN /\ req' = [req EXCEPT ![r].todo = {},
                                   ![r].failed = @ \cup {i}]
             /\ UNCHANGED <<clients, nextId>>
        ELSE /\ clients' = clients \cup {NewRow(doc, nextId)}
             /\ nextId' = nextId + 1
             /\ req' = [req EXCEPT ![r].todo = @ \ {i},
                                   ![r].nIns = @ + 1]
  /\ UNCHANGED <<resp, analysisVars>>

\* the store takes one document of the unordered bulk
ConfirmInsertOne(r, i) ==
  /\ req[r].kind = "confirm" /\ req[r].pc = "insert"
  /\ i \in req[r].todo
  /\ LET doc == clientsToCreate(req[r].input)[i]
     IN IF UniqueViolation(doc, clients, 0)
        THEN /\ req' = [req EXCEPT ![r].todo = @ \ {i},
                                   ![r].failed = @ \cup {i}]
             /\ UNCHANGED <<clients, nextId>>
        ELSE /\ clients' = clients \cup {NewRow(doc, nextId)}
             /\ nextId' = nextId + 1
             /\ req' = [req EXCEPT ![r].todo = @ \ {i},
                                   ![r].nIns = @ + 1]
  /\ UNCHANGED <<resp, analysisVars>>

\* the store fails for another reason than a duplicate key: the error is
\* rethrown and errorMiddleware answers 500
ConfirmStoreFail(r) ==
  /\ req[r].kind = "confirm" /\ req[r].pc = "insert"
  /\ req' = [req EXCEPT ![r].pc = "done", ![r].errs = 1]
  /\ resp' = Answer(r, 500)
  /\ UNCHANGED <<clients, nextId, analysisVars>>

opToRecord(op) ==
  [COD_CLIENT |-> op.cod_client, IDENTIFTRI |-> op.identiftri,
   RAZON_SOCI |-> op.razon_soci]

\* (variant) no catch: a duplicate-key error leaves the handler
ConfirmRespondRethrow(r) ==
  /\ req[r].kind = "confirm" /\ req[r].pc = "insert"
  /\ req[r].todo = {}
  /\ LET docs == clientsToCreate(req[r].input)
     IN resp' = [resp EXCEPT ![r] =
          IF req[r].failed = {}
          THEN [status |-> 201, createdCount |-> Len(docs),
                duplicateClients |-> <<>>, token |-> NoToken]
          ELSE [NoResp EXCEPT !.status = 500]]
  /\ req' = [req EXCEPT ![r].pc = "done"]
  /\ UNCHANGED <<clients, nextId, analysisVars>>

ConfirmRespond(r) ==
  /\ req[r].kind = "confirm" /\ req[r].pc = "insert"
  /\ req[r].todo = {}
  /\ LET docs == clientsToCreate(req[r].input)
         writeErrors == SortedIdx(req[r].failed)
     IN resp' = [resp EXCEPT ![r] =
          IF writeErrors = <<>>
          THEN [status |-> 201, createdCount |-> Len(docs),
                duplicateClients |-> <<>>, token |-> NoToken]
          ELSE [status |-> 201, createdCount |-> req[r].nIns,
                duplicateClients |->
                  [j \in 1..Len(writeErrors) |->
                     opToRecord(docs[writeErrors[j]])],
                token |-> NoToken]]
  /\ req' = [req EXCEPT ![r].pc = "done"]
  /\ UNCHANGED <<clients, nextId, analysisVars>>

(***************************************************************************)
(* createNewClient (behind validateReqBody(createClientSchema); the        *)
(* handler reads req.body)                                                 *)
(***************************************************************************)
NoUser == <<>>

Body(cod, cuit, user) ==
  [cod_client |-> cod, razon_soci |-> ACME, identiftri |-> cuit,
   username |-> user]

CreateBodies ==
  {Body(c, t, u) : c \in {COD1, COD2}, t \in {CUIT1, CUIT2},
                   u \in {NoUser, CUIT2}}

\* the bodies that fill the store before two commits race
SeedBodies ==
  {Body(COD2, CUIT1, CUIT2), Body(COD1, CUIT1, NoUser),
   Body(COD2, CUIT2, NoUser)}

finalUsername(body) ==
  IF body.username # NoUser THEN body.username ELSE body.identiftri

CreateDoc(body) ==
  [cod_client |-> body.cod_client, razon_soci |-> body.razon_soci,
   identiftri |-> body.identiftri, username |-> finalUsername(body),
   password |-> hashSync(body.identiftri, "create"),
   active |-> FALSE]

\* Client.findOne({$or: [{cod_client}, {identiftri}, {username}]})
CreateDuplicates(body, db) ==
  {row \in db : \/ row.cod_client = body.cod_client
                \/ row.identiftri = body.identiftri
                \/ row.username = finalUsername(body)}

CreateFind(r, body) ==
  /\ req[r].pc = "idle"
  /\ IF \E duplicate \in CreateDuplicates(body, clients) :
          \/ duplicate.cod_client = body.cod_client
          \/ duplicate.identiftri = body.identiftri
          \/ duplicate.username = finalUsername(body)
     THEN /\ req' = Begin(r, "create", "done", body)
          /\ resp' = Answer(r, 409)
     ELSE /\ req' = Begin(r, "create", "save", body)
          /\ resp' = [resp EXCEPT ![r] = NoResp]
  /\ UNCHANGED <<clients, nextId, analysisVars>>

\* newClient.save(): a duplicate-key error of the store carries no status
\* and errorMiddleware answers 500
CreateSave(r) ==
  /\ req[r].kind = "create" /\ req[r].pc = "save"
  /\ LET doc == CreateDoc(req[r].input)
     IN IF UniqueViolation(doc, clients, 0)
        THEN /\ resp' = Answer(r, 500)
             /\ req' = [req EXCEPT ![r].pc = "done"]
             /\ UNCHANGED <<clients, nextId>>
        ELSE /\ clients' = clients \cup {NewRow(doc, nextId)}
             /\ nextId' = nextId + 1
             /\ resp' = [resp EXCEPT ![r] =
                           [NoResp EXCEPT !.status = 201, !.createdCount = 1]]
             /\ req' = [req EXCEPT ![r].pc = "done", ![r].nIns = 1]
  /\ UNCHANGED analysisVars

(***************************************************************************)
(* updateClientById (behind validateReqBody(updateClientSchema)) and       *)
(* bulkUpdateClients.  A field that the body does not carry is <<>>.       *)
(***************************************************************************)
Absent == <<>>

\* rest holds the other fields of the body with their values, <<>> for none
Upd(id, cod, cuit, user) ==
  [id |-> id, cod_client |-> cod, identiftri |-> cuit, username |-> user,
   rest |-> <<>>]

UpdateBodies ==
  {Upd(id, COD2, Absent, Absent) : id \in {1, 2}} \cup
  {Upd(id, Absent, CUIT2, Absent) : id \in {1, 2}} \cup
  {Upd(id, COD1, CUIT1, Absent) : id \in {1, 2}} \cup
  {Upd(id, Absent, Absent, CUIT2) : id \in {1, 2}}

\* the row after findByIdAndUpdate wrote the fields the body carries
Updated(row, body) ==
  [row EXCEPT
     !.cod_client = IF body.cod_client # Absent THEN body.cod_client ELSE @,
     !.identiftri = IF body.identiftri # Absent THEN body.identiftri ELSE @,
     !.username = IF body.username # Absent THEN body.username ELSE @,
     !.active = IF "active" \in DOMAIN body.rest
                THEN body.rest.active ELSE @,
     !.must_change_password =
        IF "must_change_password" \in DOMAIN body.rest
        THEN body.rest.must_change_password ELSE @]

\* Client.findOne({$or: [...], _id: {$ne: id}})
UpdateDuplicates(body, db) ==
  {row \in db : /\ row.id # body.id
                /\ \/ body.cod_client # Absent /\ row.cod_client = body.cod_client
                   \/ body.identiftri # Absent /\ row.identiftri = body.identiftri
                   \/ body.username # Absent /\ row.username = body.username}

UpdateFind(r, body) ==
  /\ req[r].pc = "idle"
  /\ IF UpdateDuplicates(body, clients) # {}
     THEN /\ req' = Begin(r, "update", "done", body)
          /\ resp' = Answer(r, 409)
     ELSE /\ req' = Begin(r, "update", "save", body)
          /\ resp' = [resp EXCEPT ![r] = NoResp]
  /\ UNCHANGED <<clients, nextId, analysisVars>>

\* the store applies an update to the row of that id, unless a unique
\* index rejects it
StoreUpdate(body, db) ==
  LET target == {row \in db : row.id = body.id}
  IN IF target = {} THEN [outcome |-> "notfound", db |-> db]
     ELSE LET row == CHOOSE x \in target : TRUE
              new == Updated(row, body)
          IN IF UniqueViolation(new, db, row.id)
             THEN [outcome |-> "duplicate", db |-> db]
             ELSE [outcome |-> "ok", db |-> (db \ {row}) \cup {new}]

UpdateSave(r) ==
  /\ req[r].kind = "update" /\ req[r].pc = "save"
  /\ LET res == StoreUpdate(req[r].input, clients)
     IN /\ clients' = res.db
        /\ resp' = Answer(r, CASE res.outcome = "notfound" -> 404
                               [] res.outcome = "duplicate" -> 500
                               [] OTHER -> 200)
        /\ req' = [req EXCEPT ![r].pc = "done"]
  /\ UNCHANGED <<nextId, analysisVars>>

BulkItems ==
  {Upd(0, COD2, Absent, Absent), Upd(1, Absent, CUIT2, Absent),
   Upd(2, COD1, CUIT1, Absent)}

BulkLists == SeqsUpTo(BulkItems, MaxBulk)

\* Client.findOne({$or: [{identiftri}, {username}], _id: {$ne: _id}})
BulkDuplicates(item, db) ==
  {row \in db : /\ row.id # item.id
                /\ \/ item.identiftri # Absent /\ row.identiftri = item.identiftri
                   \/ item.username # Absent /\ row.username = item.username}

BulkStart(r, list) ==
  /\ req[r].pc = "idle"
  /\ IF Len(list) = 0
     THEN /\ req' = Begin(r, "bulk", "done", list)
          /\ resp' = Answer(r, 400)
     ELSE /\ req' = Begin(r, "bulk", "find", list)
          /\ resp' = [resp EXCEPT ![r] = NoResp]
  /\ UNCHANGED <<clients, nextId, analysisVars>>

\* one turn of the loop up to its findOne
BulkFind(r) ==
  /\ req[r].kind = "bulk" /\ req[r].pc = "find"
  /\ req[r].k <= Len(req[r].input)
  /\ LET item == req[r].input[req[r].k]
     IN IF item.id = 0 \/ BulkDuplicates(item, clients) # {}
        THEN req' = [req EXCEPT ![r].k = @ + 1, ![r].errs = @ + 1]
        ELSE req' = [req EXCEPT ![r].pc = "save"]
  /\ UNCHANGED <<clients, nextId, resp, analysisVars>>

\* the findByIdAndUpdate of that turn
BulkSave(r) ==
  /\ req[r].kind = "bulk" /\ req[r].pc = "save"
  /\ LET res == StoreUpdate(req[r].input[req[r].k], clients)
     IN /\ clients' = res.db
        /\ req' = [req EXCEPT ![r].pc = "find", ![r].k = @ + 1,
                     ![r].errs = IF res.outcome = "ok" THEN @ ELSE @ + 1,
                     ![r].nIns = IF res.outcome = "ok" THEN @ + 1 ELSE @]
  /\ UNCHANGED <<nextId, resp, analysisVars>>

BulkRespond(r) ==
  /\ req[r].kind = "bulk" /\ req[r].pc = "find"
  /\ req[r].k > Len(req[r].input)
  /\ resp' = [resp EXCEPT ![r] =
       [NoResp EXCEPT !.status = IF req[r].errs > 0 THEN 207 ELSE 200,
                      !.createdCount = req[r].nIns]]
  /\ req' = [req EXCEPT ![r].pc = "done"]
  /\ UNCHANGED <<clients, nextId, analysisVars>>

(***************************************************************************)
(* loginClient and resetPassword (behind auth(Roles.CLIENT,                *)
(* Purposes.resetPassword): the caller presents the token of a login)      *)
(***************************************************************************)
RESET_PASSWORD == "reset-password"
NO_PURPOSE == "undefined"

\* client.must_change_password
mustChangePassword(client) == client.must_change_password

\* Client.findOne({username}), the checks and createToken
loginClient(username, password, db) ==
  LET found == {row \in db : row.username = username}
  IN IF found = {} THEN [NoResp EXCEPT !.status = 401]
     ELSE LET client == CHOOSE row \in found : TRUE
          IN IF ~compareSync(password, client.password)
             THEN [NoResp EXCEPT !.status = 401]
             ELSE IF ~client.active THEN [NoResp EXCEPT !.status = 403]
             ELSE IF mustChangePassword(client)
             THEN [NoResp EXCEPT !.status = 200,
                     !.token = [id |-> client.id, purpose |-> RESET_PASSWORD]]
             ELSE [NoResp EXCEPT !.status = 200,
                     !.token = [id |-> client.id, purpose |-> NO_PURPOSE]]

LoginClient(r, username, password) ==
  /\ req[r].pc = "idle"
  /\ req' = Begin(r, "login", "done",
                  [username |-> username, password |-> password])
  /\ resp' = [resp EXCEPT ![r] = loginClient(username, password, clients)]
  /\ UNCHANGED <<clients, nextId, analysisVars>>

\* the caller sends the token of its login to /reset-password:
\* Client.findByIdAndUpdate(id, {password, must_change_password: false})
ResetPassword(r, newPassword) ==
  /\ req[r].kind = "login" /\ req[r].pc = "done"
  /\ resp[r].token.purpose = RESET_PASSWORD
  /\ clients' =
        {IF row.id = resp[r].token.id
         THEN [row EXCEPT !.password = hashSync(newPassword, "reset"),
                          !.must_change_password = FALSE]
         ELSE row : row \in clients}
  /\ req' = Begin(r, "reset", "done", req[r].input)
  /\ resp' = Answer(r, 200)
  /\ UNCHANGED <<nextId, analysisVars>>

\* the response has been sent: the slot is free again
Reset(r) ==
  /\ req[r].pc = "done"
  /\ req' = [req EXCEPT ![r] = IdleReq]
  /\ resp' = [resp EXCEPT ![r] = NoResp]
  /\ UNCHANGED <<clients, nextId, analysisVars>>

(***************************************************************************)
(* analyzeClients.  An upload row carries three raw values; the report     *)
(* holds the four lists and the summary.                                   *)
(***************************************************************************)
Raw(cod, cuit, razon) ==
  [COD_CLIENT |-> cod, IDENTIFTRI |-> cuit, RAZON_SOCI |-> razon]

RawRecords ==
  {Raw(Str(<<"a", "b", "c", "-", "1", "2", "3">>),
       Str(<<"2", "0", "-", "1", "2", "3", "4", "5", "6", "7", "8", "-", "3">>),
       Str(<<" ", "a", "c", "m", "e", " ">>)),
   Raw(Str(COD2), Num(CUIT2), Null),
   Raw(Str(<<"1", "A", "2", "B", "3", "C">>), Num(CUIT2), Str(ACME)),
   Raw(Str(COD2), Str(CUIT1), Str(<<" ">>)),
   Raw(Str(<<"A", "B", "1", "2">>), Str(CUIT1), Str(ACME)),
   Raw(Num(<<"7", "8", "9">>), Str(CUIT2), Str(ACME)),
   Raw(Str(COD2), Str(<<"1", "2", "3", "4">>), Str(ACME)),
   Raw(Null, Null, Null)}

Batches == SeqsUpTo(RawRecords, MaxBatch)

cleanedClient(client) ==
  [COD_CLIENT |-> cleanCodClient(client.COD_CLIENT),
   IDENTIFTRI |-> cleanIdentiftri(client.IDENTIFTRI),
   RAZON_SOCI |-> cleanRazonSoci(client.RAZON_SOCI),
   originalData |-> client]

\* (variant) a schema without the rule on IDENTIFTRI
clientObjectSchemaErrorsNoCuit(value) ==
  LET cod == trim(value.COD_CLIENT)
      saneado == SelectSeq(toUpperCaseStr(cod), IsAlnum)
      letras == SelectSeq(saneado, IsLetter)
      numeros == SelectSeq(saneado, IsDigit)
  IN IF cod = <<>> THEN <<"COD_CLIENT string.empty">>
     ELSE IF Len(letras) # 3 \/ Len(numeros) # 3
     THEN <<"COD_CLIENT any.invalid">>
     ELSE <<>>

\* clientObjectSchema.validate: the error of the first key that fails
\* (abortEarly), <<>> when the three keys pass
clientObjectSchemaErrors(value) ==
  LET cod == trim(value.COD_CLIENT)
      saneado == SelectSeq(toUpperCaseStr(cod), IsAlnum)
      letras == SelectSeq(saneado, IsLetter)
      numeros == SelectSeq(saneado, IsDigit)
      cuit == trim(value.IDENTIFTRI)
      soloNumeros == SelectSeq(cuit, IsDigit)
  IN IF cod = <<>> THEN <<"COD_CLIENT string.empty">>
     ELSE IF Len(letras) # 3 \/ Len(numeros) # 3
     THEN <<"COD_CLIENT any.invalid">>
     ELSE IF cuit = <<>> THEN <<"IDENTIFTRI string.empty">>
     ELSE IF Len(soloNumeros) # 11 THEN <<"IDENTIFTRI any.invalid">>
     ELSE <<>>

Keys(client) ==
  [COD_CLIENT |-> client.COD_CLIENT, IDENTIFTRI |-> client.IDENTIFTRI,
   RAZON_SOCI |-> client.RAZON_SOCI]

\* (variant) a row that fails validation is also kept as a candidate
RECURSIVE validClientsOfAll(_)
validClientsOfAll(cleanedClients) ==
  IF cleanedClients = <<>> THEN <<>>
  ELSE <<Keys(Head(cleanedClients))>> \o validClientsOfAll(Tail(cleanedClients))

\* the first loop: the valid candidates and the invalid rows, in input order
RECURSIVE validClientsOf(_)
validClientsOf(cleanedClients) ==
  IF cleanedClients = <<>> THEN <<>>
  ELSE LET client == Head(cleanedClients)
       IN (IF clientObjectSchemaErrors(Keys(client)) = <<>>
           THEN <<Keys(client)>> ELSE <<>>)
          \o validClientsOf(Tail(cleanedClients))

\* (variant) an invalid row is reported with its cleaned values
RECURSIVE invalidRowsOfCleaned(_)
invalidRowsOfCleaned(cleanedClients) ==
  IF cleanedClients = <<>> THEN <<>>
  ELSE LET client == Head(cleanedClients)
           errors == clientObjectSchemaErrors(Keys(client))
       IN (IF errors # <<>>
           THEN <<[data |-> Keys(client), errors |-> errors]>>
           ELSE <<>>)
          \o invalidRowsOfCleaned(Tail(cleanedClients))

RECURSIVE invalidRowsOf(_)
invalidRowsOf(cleanedClients) ==
  IF cleanedClients = <<>> THEN <<>>
  ELSE LET client == Head(cleanedClients)
           errors == clientObjectSchemaErrors(Keys(client))
       IN (IF errors # <<>>
           THEN <<[data |-> client.originalData, errors |-> errors]>>
           ELSE <<>>)
          \o invalidRowsOf(Tail(cleanedClients))

\* (variant) the query asks for the codes of the file only
clientsInDBByCode(validClients, db) ==
  {row \in db : \E i \in 1..Len(validClients) :
                   row.cod_client = validClients[i].COD_CLIENT}

\* Client.find({$or: [{identiftri: {$in: cuitsInFile}},
\*                    {cod_client: {$in: codesInFile}}]})
clientsInDB(validClients, db) ==
  {row \in db : \E i \in 1..Len(validClients) :
                   \/ row.identiftri = validClients[i].IDENTIFTRI
                   \/ row.cod_client = validClients[i].COD_CLIENT}

Conflict(client, reason, key) ==
  [COD_CLIENT |-> client.COD_CLIENT, IDENTIFTRI |-> client.IDENTIFTRI,
   RAZON_SOCI |-> client.RAZON_SOCI, conflictReason |-> <<reason, key>>]

CUIT_EN_USO == "CUIT ya esta en uso por otro cliente en la base de datos"
COD_DUPLICADO == "Cod. Cliente esta duplicado dentro del archivo"
CUIT_DUPLICADO == "CUIT esta duplicado dentro del archivo"

NoBuckets ==
  [newClients |-> <<>>, currentClients |-> <<>>, conflictingClients |-> <<>>,
   processedCodes |-> {}, processedCuits |-> {}, dispositions |-> <<>>]

\* (variant) the codes seen in the file are never consulted
inProcessedCodesNever(client, st) == FALSE

\* processedCodes.has(COD_CLIENT)
inProcessedCodes(client, st) == client.COD_CLIENT \in st.processedCodes

\* (variant) the CUIT is looked up in the store before the code
classifyOneCuitFirst(client, st, existingCodesInDB, existingCuitsInDB) ==
  IF client.IDENTIFTRI \in existingCuitsInDB
  THEN [st EXCEPT
          !.conflictingClients =
             Append(@, Conflict(client, CUIT_EN_USO, client.IDENTIFTRI)),
          !.dispositions = Append(@, "conflict")]
  ELSE IF client.COD_CLIENT \in existingCodesInDB
  THEN [st EXCEPT !.currentClients = Append(@, client),
                  !.dispositions = Append(@, "current")]
  ELSE IF client.COD_CLIENT \in st.processedCodes
  THEN [st EXCEPT
          !.conflictingClients =
             Append(@, Conflict(client, COD_DUPLICADO, client.COD_CLIENT)),
          !.dispositions = Append(@, "conflict")]
  ELSE IF client.IDENTIFTRI \in st.processedCuits
  THEN [st EXCEPT
          !.conflictingClients =
             Append(@, Conflict(client, CUIT_DUPLICADO, client.IDENTIFTRI)),
          !.dispositions = Append(@, "conflict")]
  ELSE [st EXCEPT !.newClients = Append(@, client),
                  !.processedCodes = @ \cup {client.COD_CLIENT},
                  !.processedCuits = @ \cup {client.IDENTIFTRI},
                  !.dispositions = Append(@, "new")]

\* one turn of the classification loop; dispositions notes the list the
\* candidate was pushed to
classifyOne(client, st, existingCodesInDB, existingCuitsInDB) ==
  IF client.COD_CLIENT \in existingCodesInDB
  THEN [st EXCEPT !.currentClients = Append(@, client),
                  !.dispositions = Append(@, "current")]
  ELSE IF client.IDENTIFTRI \in existingCuitsInDB
  THEN [st EXCEPT
          !.conflictingClients =
             Append(@, Conflict(client, CUIT_EN_USO, client.IDENTIFTRI)),
          !.dispositions = Append(@, "conflict")]
  ELSE IF inProcessedCodes(client, st)
  THEN [st EXCEPT
          !.conflictingClients =
             Append(@, Conflict(client, COD_DUPLICADO, client.COD_CLIENT)),
          !.dispositions = Append(@, "conflict")]
  ELSE IF client.IDENTIFTRI \in st.processedCuits
  THEN [st EXCEPT
          !.conflictingClients =
             Append(@, Conflict(client, CUIT_DUPLICADO, client.IDENTIFTRI)),
          !.dispositions = Append(@, "conflict")]
  ELSE [st EXCEPT !.newClients = Append(@, client),
                  !.processedCodes = @ \cup {client.COD_CLIENT},
                  !.processedCuits = @ \cup {client.IDENTIFTRI},
                  !.dispositions = Append(@, "new")]

\* (variant) the loop runs from the last candidate to the first
RECURSIVE classifyLastFirst(_, _, _, _)
classifyLastFirst(validClients, st, existingCodesInDB, existingCuitsInDB) ==
  IF validClients = <<>> THEN st
  ELSE classifyOne(Head(validClients),
                   classifyLastFirst(Tail(validClients), st,
                                     existingCodesInDB, existingCuitsInDB),
                   existingCodesInDB, existingCuitsInDB)

\* the second loop: the candidates are classified in input order
RECURSIVE classify(_, _, _, _)
classify(validClients, st, existingCodesInDB, existingCuitsInDB) ==
  IF validClients = <<>> THEN st
  ELSE classify(Tail(validClients),
                classifyOne(Head(validClients), st,
                            existingCodesInDB, existingCuitsInDB),
                existingCodesInDB, existingCuitsInDB)

\* the response of analyzeClients for a batch and the store content its
\* query read
analyzeClients(rawClients, db) ==
  IF Len(rawClients) = 0
  THEN [status |-> 400, valid |-> <<>>, dispositions |-> <<>>,
        summary |-> <<>>, data |-> <<>>, lookups |-> 0]
  ELSE
    LET cleanedClients == [i \in 1..Len(rawClients) |->
                              cleanedClient(rawClients[i])]
        validClients == validClientsOf(cleanedClients)
        invalidRows == invalidRowsOf(cleanedClients)
        found == clientsInDB(validClients, db)
        existingCuitsInDB == {row.identiftri : row \in found}
        existingCodesInDB == {row.cod_client : row \in found}
        st == classify(validClients, NoBuckets,
                       existingCodesInDB, existingCuitsInDB)
    IN [status |-> 200,
        valid |-> validClients,
        dispositions |-> st.dispositions,
        summary |-> [totalReceived |-> Len(rawClients),
                     totalValid |-> Len(validClients),
                     totalInvalid |-> Len(invalidRows),
                     totalNew |-> Len(st.newClients),
                     totalCurrent |-> Len(st.currentClients),
                     totalConflicts |-> Len(st.conflictingClients)],
        data |-> [newClients |-> st.newClients,
                  currentClients |-> st.currentClients,
                  conflictingClients |-> st.conflictingClients,
                  invalidRows |-> invalidRows],
        lookups |-> 1]

NoReport == [batch |-> <<>>, db |-> {}, res |-> <<>>]

\* an analyze request that inserts the candidates it classifies as New
AnalyzeClientsInserting(rawClients) ==
  /\ req[1].pc = "idle"
  /\ report = NoReport
  /\ report' = [batch |-> rawClients, db |-> clients,
                res |-> analyzeClients(rawClients, clients)]
  /\ clients' = clients \cup
        {NewRow([cod_client |-> c.COD_CLIENT, razon_soci |-> c.RAZON_SOCI,
                 identiftri |-> c.IDENTIFTRI, username |-> c.IDENTIFTRI,
                 password |-> hashSync(c.IDENTIFTRI, "migration"),
                 active |-> FALSE], nextId) :
           c \in IF Len(rawClients) = 0 THEN {}
                 ELSE Range(analyzeClients(rawClients, clients).data.newClients)}
  /\ UNCHANGED <<nextId, req, resp, hist, last, productVars,
               cleanerVars>>

\* an analyze request: it reads the store once and answers
AnalyzeClients(rawClients) ==
  /\ req[1].pc = "idle"
  /\ report = NoReport
  /\ report' = [batch |-> rawClients, db |-> clients,
                res |-> analyzeClients(rawClients, clients)]
  /\ UNCHANGED <<clients, nextId, req, resp, hist, last, productVars,
               cleanerVars>>

\* the caller is done with the report
Discard ==
  /\ report # NoReport
  /\ report' = NoReport
  /\ UNCHANGED <<clients, nextId, req, resp, hist, last, productVars,
               cleanerVars>>

(***************************************************************************)
(* The product domain.  A row of an upload carries code, lab, category and *)
(* desc as strings, <<>> for a blank or missing value.  Lab and Category   *)
(* rows are [id, name]; a Product row is [code, desc, lab, category] with  *)
(* the ids of its lab and category, NoId for a path the row does not have. *)
(* hasCategoryPath tells which of the two productSchema versions of the    *)
(* sources the build loads: the one with a category path or the one        *)
(* without.                                                                *)
(***************************************************************************)
NoId == 0

ProductRow(code, lab, category, desc) ==
  [code |-> code, lab |-> lab, category |-> category, desc |-> desc]

P1 == <<"P", "1">>
P2 == <<"P", "2">>
BAJA == <<"B", "A", "J", "A">>

ProductRows ==
  {ProductRow(P1, <<"a", "b">>, <<"c">>, <<"d", "1">>),
   ProductRow(<<" ", "P", "1">>, <<"A", "B", " ">>, <<"C">>, <<"d", "2">>),
   ProductRow(P2, <<" ", "b", "a", "j", "a">>, <<"c">>, <<"d", "1">>),
   ProductRow(P2, <<"X">>, <<"c">>, <<"d", "1">>),
   ProductRow(P2, <<"a", "b">>, <<>>, <<"d", "1">>),
   ProductRow(P2, <<" ">>, <<"c">>, <<"d", "1">>),
   ProductRow(<<" ">>, <<"a", "b">>, <<"c">>, <<"d", "1">>),
   ProductRow(P2, <<"a", "b">>, <<"c">>, <<>>)}

ProductBatches == SeqsUpTo(ProductRows, MaxProducts)

\* name ? String(name).trim().toUpperCase() : ""
normalizeName(name) == IF name = <<>> THEN <<>> ELSE toUpperCaseStr(trim(name))

\* the batch with no row taken out
productsToAnalyzeAll(productsData) == productsData

\* the rows that are not marked BAJA, in input order
productsToAnalyze(productsData) ==
  LET keep(product) == /\ normalizeName(product.lab) # BAJA
                       /\ normalizeName(product.category) # BAJA
  IN SelectSeq(productsData, keep)

\* new Set(names.filter(Boolean)): the non-blank names in the order of
\* their first occurrence
RECURSIVE uniqueNames(_)
uniqueNames(names) ==
  IF names = <<>> THEN <<>>
  ELSE LET init == uniqueNames(SubSeq(names, 1, Len(names) - 1))
           x == names[Len(names)]
       IN IF x = <<>> \/ x \in Range(init) THEN init ELSE Append(init, x)

uniqueLabNames(rows) ==
  uniqueNames([i \in 1..Len(rows) |-> normalizeName(rows[i].lab)])

uniqueCategoryNames(rows) ==
  uniqueNames([i \in 1..Len(rows) |-> normalizeName(rows[i].category)])

NoBucketsP ==
  [productsWithErrors |-> <<>>, newProductsForFrontend |-> <<>>,
   currentProductsForFrontend |-> <<>>,
   conflictingProductsForFrontend |-> <<>>,
   newProductsForMigration |-> <<>>]

IdlePReq ==
  [kind |-> "none", pc |-> "idle", input |-> <<>>, toAnalyze |-> <<>>,
   names |-> <<>>, labsMap |-> {}, categoriesMap |-> {}, k |-> 1,
   out |-> NoBucketsP, createdCount |-> 0, migrationErrors |-> <<>>,
   finds |-> 0, saves |-> 0]

NoPResp == [status |-> 0, summary |-> <<>>, data |-> <<>>]

\* where the handler goes after the lab loop, and after the category loop
AfterLabs(rows) ==
  IF uniqueCategoryNames(rows) # <<>>
  THEN [pc |-> "categoryFind", names |-> uniqueCategoryNames(rows)]
  ELSE [pc |-> "products", names |-> <<>>]

AfterStart(rows) ==
  IF uniqueLabNames(rows) # <<>>
  THEN [pc |-> "labFind", names |-> uniqueLabNames(rows)]
  ELSE AfterLabs(rows)

EmptySummary(totalReceived, totalFilteredOut) ==
  [totalReceived |-> totalReceived, totalValid |-> 0, totalInvalid |-> 0,
   totalNew |-> 0, totalCurrent |-> 0, totalConflicts |-> 0,
   totalFilteredOut |-> totalFilteredOut]

EmptyData ==
  [newProducts |-> <<>>, currentProducts |-> <<>>,
   conflictingProducts |-> <<>>, invalidRows |-> <<>>,
   productsReadyForMigration |-> <<>>]

PFree(r) == preq[r].pc \in {"idle", "done"}

AnalyzeProductsStart(r, productsData) ==
  /\ PFree(r)
  /\ LET rows == productsToAnalyze(productsData)
         begun == [IdlePReq EXCEPT !.kind = "analyze", !.input = productsData,
                                   !.toAnalyze = rows]
     IN IF Len(productsData) = 0
        THEN /\ preq' = [preq EXCEPT ![r] = [begun EXCEPT !.pc = "done"]]
             /\ presp' = [presp EXCEPT ![r] = [NoPResp EXCEPT !.status = 400]]
        ELSE IF Len(rows) = 0
        THEN /\ preq' = [preq EXCEPT ![r] = [begun EXCEPT !.pc = "done"]]
             /\ presp' = [presp EXCEPT ![r] =
                  [status |-> 200,
                   summary |-> EmptySummary(Len(productsData),
                                            Len(productsData)),
                   data |-> EmptyData]]
        ELSE /\ preq' = [preq EXCEPT ![r] =
                  [begun EXCEPT !.pc = AfterStart(rows).pc,
                                !.names = AfterStart(rows).names]]
             /\ presp' = [presp EXCEPT ![r] = NoPResp]
  /\ UNCHANGED <<clientVars, cleanerVars, products, labs, categories, hasCategoryPath>>

\* map.get(name): the id set for the name, NoId when there is none
IdOf(map, name) ==
  IF \E e \in map : e.name = name
  THEN (CHOOSE e \in map : e.name = name).id
  ELSE NoId

\* labNamesMap.get(id) || fallback
NameOf(map, id, fallback) ==
  IF \E e \in map : e.id = id
  THEN (CHOOSE e \in map : e.id = id).name
  ELSE fallback

\* the loop turns to the next name, or the handler leaves the loop
NextLab(q) ==
  IF Tail(q.names) # <<>>
  THEN [q EXCEPT !.pc = "labFind", !.names = Tail(@)]
  ELSE [q EXCEPT !.pc = AfterLabs(q.toAnalyze).pc,
                 !.names = AfterLabs(q.toAnalyze).names]

NextCategory(q) ==
  IF Tail(q.names) # <<>>
  THEN [q EXCEPT !.pc = "categoryFind", !.names = Tail(@)]
  ELSE [q EXCEPT !.pc = "products", !.names = <<>>]

\* Lab.findOne({name: labName})
LabFind(r) ==
  /\ preq[r].kind = "analyze" /\ preq[r].pc = "labFind"
  /\ LET labName == Head(preq[r].names)
         found == {lab \in labs : lab.name = labName}
     IN IF found # {}
        THEN LET lab == CHOOSE lab \in found : TRUE
             IN preq' = [preq EXCEPT ![r] =
                  NextLab([preq[r] EXCEPT !.labsMap =
                     @ \cup {[name |-> lab.name, id |-> lab.id]}])]
        ELSE preq' = [preq EXCEPT ![r].pc = "labSave"]
  /\ UNCHANGED <<clientVars, cleanerVars, products, labs, categories, presp,
                 hasCategoryPath>>

\* lab.save(): the unique index on name rejects a second row of that name,
\* and the catch of the loop leaves the name without an id
LabSave(r) ==
  /\ preq[r].kind = "analyze" /\ preq[r].pc = "labSave"
  /\ LET labName == Head(preq[r].names)
         id == Cardinality(labs) + 1
     IN IF \E lab \in labs : lab.name = labName
        THEN /\ preq' = [preq EXCEPT ![r] = NextLab(preq[r])]
             /\ UNCHANGED labs
        ELSE /\ labs' = labs \cup {[id |-> id, name |-> labName]}
             /\ preq' = [preq EXCEPT ![r] =
                  NextLab([preq[r] EXCEPT !.labsMap =
                     @ \cup {[name |-> labName, id |-> id]}])]
  /\ UNCHANGED <<clientVars, cleanerVars, products, categories, presp, hasCategoryPath>>

\* Category.findOne({name: categoryName})
CategoryFind(r) ==
  /\ preq[r].kind = "analyze" /\ preq[r].pc = "categoryFind"
  /\ LET categoryName == Head(preq[r].names)
         found == {category \in categories : category.name = categoryName}
     IN IF found # {}
        THEN LET category == CHOOSE category \in found :
                                \A other \in found : category.id <= other.id
             IN preq' = [preq EXCEPT ![r] =
                  NextCategory([preq[r] EXCEPT !.categoriesMap =
                     @ \cup {[name |-> category.name, id |-> category.id]}])]
        ELSE preq' = [preq EXCEPT ![r].pc = "categorySave"]
  /\ UNCHANGED <<clientVars, cleanerVars, products, labs, categories, presp,
                 hasCategoryPath>>

\* category.save().  When another request has saved the name since the
\* findOne, the outcome depends on the Category schema: with a unique index
\* on name (as labSchema has) the save is rejected and the catch of the loop
\* leaves the name without an id, without one a second row is inserted
CategorySave(r) ==
  /\ preq[r].kind = "analyze" /\ preq[r].pc = "categorySave"
  /\ LET categoryName == Head(preq[r].names)
         id == Cardinality(categories) + 1
     IN \/ /\ categories' = categories \cup {[id |-> id, name |-> categoryName]}
           /\ preq' = [preq EXCEPT ![r] =
                NextCategory([preq[r] EXCEPT !.categoriesMap =
                   @ \cup {[name |-> categoryName, id |-> id]}])]
        \/ /\ \E category \in categories : category.name = categoryName
           /\ preq' = [preq EXCEPT ![r] = NextCategory(preq[r])]
           /\ UNCHANGED categories
  /\ UNCHANGED <<clientVars, cleanerVars, products, labs, presp, hasCategoryPath>>

CODE_REQUERIDO == "El codigo del producto es requerido"
LAB_NO_ENCONTRADO == "Laboratorio no encontrado o no pudo ser creado"
CAT_NO_ENCONTRADA == "Categoria no encontrada o no pudo ser creada"
DESC_REQUERIDA == "La descripcion del producto es requerida"
ERROR_INTERNO == "Error interno al analizar el producto"
YA_EXISTE == "ya existe con descripcion, laboratorio o categoria diferente"

WithError(out, productData, error) ==
  [out EXCEPT !.productsWithErrors =
     Append(@, [data |-> productData, errors |-> <<error>>])]

RowErrorNoLab(productData, labId, categoryId) ==
  IF trim(productData.code) = <<>> THEN CODE_REQUERIDO
  ELSE IF categoryId = NoId THEN CAT_NO_ENCONTRADA
  ELSE IF productData.desc = <<>> THEN DESC_REQUERIDA
  ELSE ""

\* the checks of a row before the store is asked: the error, "" for none
RowError(productData, labId, categoryId) ==
  IF trim(productData.code) = <<>> THEN CODE_REQUERIDO
  ELSE IF labId = NoId THEN LAB_NO_ENCONTRADO
  ELSE IF categoryId = NoId THEN CAT_NO_ENCONTRADA
  ELSE IF productData.desc = <<>> THEN DESC_REQUERIDA
  ELSE ""

\* (variant) the description is not compared
ExistingAnyDesc(out, productData, existingProduct, q, labId, categoryId) ==
  IF ~hasCategoryPath \/ existingProduct.category = NoId
  THEN WithError(out, productData, ERROR_INTERNO)
  ELSE LET entry == [code |-> productData.code, desc |-> productData.desc,
                     lab |-> NameOf(q.labsMap, existingProduct.lab,
                                    productData.lab),
                     category |-> productData.category]
       IN IF \/ existingProduct.lab # labId
             \/ existingProduct.category # categoryId
          THEN [out EXCEPT !.conflictingProductsForFrontend =
                  Append(@, [code |-> entry.code, desc |-> entry.desc,
                             lab |-> entry.lab, category |-> entry.category,
                             conflictReason |-> <<trim(productData.code),
                                                  YA_EXISTE>>])]
          ELSE [out EXCEPT !.currentProductsForFrontend = Append(@, entry)]

\* the branch for a row whose code is persisted as existingProduct.  The
\* comparison and both entries read existingProduct.category, which is
\* undefined (and throws) when the row or the schema has no such path
Existing(out, productData, existingProduct, q, labId, categoryId) ==
  IF ~hasCategoryPath \/ existingProduct.category = NoId
  THEN WithError(out, productData, ERROR_INTERNO)
  ELSE LET entry == [code |-> productData.code, desc |-> productData.desc,
                     lab |-> NameOf(q.labsMap, existingProduct.lab,
                                    productData.lab),
                     category |-> productData.category]
       IN IF \/ existingProduct.desc # productData.desc
             \/ existingProduct.lab # labId
             \/ existingProduct.category # categoryId
          THEN [out EXCEPT !.conflictingProductsForFrontend =
                  Append(@, [code |-> entry.code, desc |-> entry.desc,
                             lab |-> entry.lab, category |-> entry.category,
                             conflictReason |-> <<trim(productData.code),
                                                  YA_EXISTE>>])]
          ELSE [out EXCEPT !.currentProductsForFrontend = Append(@, entry)]

\* the branch for a row whose code is not persisted
Fresh(out, productData, labId, categoryId) ==
  [out EXCEPT
     !.newProductsForMigration =
        Append(@, [code |-> trim(productData.code), desc |-> productData.desc,
                   lab |-> labId, category |-> categoryId]),
     !.newProductsForFrontend =
        Append(@, [code |-> trim(productData.code), desc |-> productData.desc,
                   lab |-> normalizeName(productData.lab),
                   category |-> normalizeName(productData.category),
                   labObjectId |-> labId, categoryObjectId |-> categoryId])]

\* one turn of the product loop, with its Product.findOne({code})
ProductOne(r) ==
  /\ preq[r].kind = "analyze" /\ preq[r].pc = "products"
  /\ preq[r].k <= Len(preq[r].toAnalyze)
  /\ LET q == preq[r]
         productData == q.toAnalyze[q.k]
         labId == IdOf(q.labsMap, normalizeName(productData.lab))
         categoryId == IdOf(q.categoriesMap, normalizeName(productData.category))
         error == RowError(productData, labId, categoryId)
         found == {p \in products : p.code = trim(productData.code)}
     IN preq' = [preq EXCEPT ![r].k = @ + 1,
          ![r].finds = IF error # "" THEN @ ELSE @ + 1,
          ![r].out =
          IF error # "" THEN WithError(q.out, productData, error)
          ELSE IF found # {}
          THEN Existing(q.out, productData, CHOOSE p \in found : TRUE, q,
                        labId, categoryId)
          ELSE Fresh(q.out, productData, labId, categoryId)]
  /\ UNCHANGED <<clientVars, cleanerVars, products, labs, categories, presp,
                 hasCategoryPath>>

\* the same turn when Product.findOne fails: the catch of the loop lists
\* the row with the errors
ProductOneFail(r) ==
  /\ preq[r].kind = "analyze" /\ preq[r].pc = "products"
  /\ preq[r].k <= Len(preq[r].toAnalyze)
  /\ LET q == preq[r]
         productData == q.toAnalyze[q.k]
         labId == IdOf(q.labsMap, normalizeName(productData.lab))
         categoryId == IdOf(q.categoriesMap, normalizeName(productData.category))
     IN /\ RowError(productData, labId, categoryId) = ""
        /\ preq' = [preq EXCEPT ![r].k = @ + 1, ![r].finds = @ + 1,
              ![r].out = WithError(q.out, productData, ERROR_INTERNO)]
  /\ UNCHANGED <<clientVars, cleanerVars, products, labs, categories, presp,
                 hasCategoryPath>>

AnalyzeProductsRespond(r) ==
  /\ preq[r].kind = "analyze" /\ preq[r].pc = "products"
  /\ preq[r].k > Len(preq[r].toAnalyze)
  /\ LET q == preq[r]
         out == q.out
     IN presp' = [presp EXCEPT ![r] =
          [status |-> 200,
           summary |->
             [totalReceived |-> Len(q.input),
              totalValid |-> Len(out.newProductsForFrontend)
                               + Len(out.currentProductsForFrontend),
              totalInvalid |-> Len(out.productsWithErrors),
              totalNew |-> Len(out.newProductsForFrontend),
              totalCurrent |-> Len(out.currentProductsForFrontend),
              totalConflicts |-> Len(out.conflictingProductsForFrontend),
              totalFilteredOut |-> Len(q.input) - Len(q.toAnalyze)],
           data |->
             [newProducts |-> out.newProductsForFrontend,
              currentProducts |-> out.currentProductsForFrontend,
              conflictingProducts |-> out.conflictingProductsForFrontend,
              invalidRows |-> out.productsWithErrors,
              productsReadyForMigration |-> out.newProductsForMigration]]]
  /\ preq' = [preq EXCEPT ![r].pc = "done"]
  /\ UNCHANGED <<clientVars, cleanerVars, products, labs, categories, hasCategoryPath>>

(***************************************************************************)
(* confirmProductMigration                                                 *)
(***************************************************************************)
ConfirmProductsStart(r, productsToMigrate) ==
  /\ PFree(r)
  /\ IF Len(productsToMigrate) = 0
     THEN /\ preq' = [preq EXCEPT ![r] =
               [IdlePReq EXCEPT !.kind = "confirm", !.pc = "done"]]
          /\ presp' = [presp EXCEPT ![r] = [NoPResp EXCEPT !.status = 400]]
     ELSE /\ preq' = [preq EXCEPT ![r] =
               [IdlePReq EXCEPT !.kind = "confirm", !.pc = "insert",
                                !.input = productsToMigrate]]
          /\ presp' = [presp EXCEPT ![r] = NoPResp]
  /\ UNCHANGED <<clientVars, cleanerVars, products, labs, categories, hasCategoryPath>>

LAB_INVALIDO == "ID de laboratorio invalido o ausente"
CAT_INVALIDA == "ID de categoria invalido o ausente"
ERROR_AL_INSERTAR == "Error al insertar producto"

\* new Product(productData): a path that the schema does not have is
\* dropped
NewProduct(productData) ==
  [code |-> productData.code, desc |-> productData.desc,
   lab |-> productData.lab,
   category |-> IF hasCategoryPath THEN productData.category ELSE NoId]

\* an id that is no ObjectId, as a caller may send it
BadId == -1

\* (variant) every id passes
isValidAny(id) == TRUE

\* mongoose.Types.ObjectId.isValid(id)
isValid(id) == id # BadId

\* one turn of the loop: the two id checks and newProduct.save()
ConfirmProductOne(r) ==
  /\ preq[r].kind = "confirm" /\ preq[r].pc = "insert"
  /\ preq[r].k <= Len(preq[r].input)
  /\ LET productData == preq[r].input[preq[r].k]
         failed(error) ==
           [preq EXCEPT ![r].k = @ + 1,
                        ![r].migrationErrors =
                           Append(@, [data |-> productData, error |-> error])]
     IN IF productData.lab = NoId \/ ~isValid(productData.lab)
        THEN preq' = failed(LAB_INVALIDO) /\ UNCHANGED products
        ELSE IF productData.category = NoId \/ ~isValid(productData.category)
        THEN preq' = failed(CAT_INVALIDA) /\ UNCHANGED products
        ELSE IF productData.code = <<>>
        THEN preq' = failed(ERROR_AL_INSERTAR) /\ UNCHANGED products
        ELSE IF \E p \in products : p.code = productData.code
        THEN /\ preq' = [failed(ERROR_AL_INSERTAR) EXCEPT ![r].saves = @ + 1]
             /\ UNCHANGED products
        ELSE /\ products' = products \cup {NewProduct(productData)}
             /\ preq' = [preq EXCEPT ![r].k = @ + 1, ![r].saves = @ + 1,
                                     ![r].createdCount = @ + 1]
  /\ UNCHANGED <<clientVars, cleanerVars, labs, categories, presp, hasCategoryPath>>

ConfirmProductsRespond(r) ==
  /\ preq[r].kind = "confirm" /\ preq[r].pc = "insert"
  /\ preq[r].k > Len(preq[r].input)
  /\ presp' = [presp EXCEPT ![r] =
       [status |-> 201, summary |-> <<>>,
        data |-> [createdCount |-> preq[r].createdCount,
                  migrationErrors |-> preq[r].migrationErrors]]]
  /\ preq' = [preq EXCEPT ![r].pc = "done"]
  /\ UNCHANGED <<clientVars, cleanerVars, products, labs, categories, hasCategoryPath>>

\* the response has been sent and the handler has returned
PReset(r) ==
  /\ preq[r].pc = "done"
  /\ preq' = [preq EXCEPT ![r] = IdlePReq]
  /\ presp' = [presp EXCEPT ![r] = NoPResp]
  /\ UNCHANGED <<clientVars, cleanerVars, products, labs, categories, hasCategoryPath>>

\* request r holds the report of an analysis
Reported(r) ==
  /\ preq[r].kind = "analyze" /\ preq[r].pc = "done"
  /\ presp[r].status = 200

(***************************************************************************)
(* The cleaners on their own: a raw value of any type is handed to one of  *)
(* them, and its result is handed to it again.                             *)
(***************************************************************************)
RawChars == {"a", "B", "1", "-", " "}

RawValues ==
  {Str(s) : s \in SeqsUpTo(RawChars, MaxRawLen)}
    \cup {Num(<<"0">>), Num(<<"7", "8", "9">>), Num(<<"-", "5">>),
          Num(<<"1", "e", "+", "2", "1">>)}
    \cup {Null, Undefined, Bool(<<"t", "r", "u", "e">>),
          Bool(<<"f", "a", "l", "s", "e">>), Object, Array(<<>>),
          Array(<<"a", "1">>)}

Cleaners == {"cleanCodClient", "cleanIdentiftri", "cleanRazonSoci"}

Clean(by, raw) ==
  CASE by = "cleanCodClient" -> cleanCodClient(raw)
    [] by = "cleanIdentiftri" -> cleanIdentiftri(raw)
    [] by = "cleanRazonSoci" -> cleanRazonSoci(raw)

CleanOnce(by) ==
  /\ cleanValue = NotCleaned
  /\ cleanValue' = [by |-> by, out |-> <<Clean(by, rawValue)>>]
  /\ UNCHANGED <<clientVars, productVars, rawValue>>

CleanCod == CleanOnce("cleanCodClient")
CleanCuit == CleanOnce("cleanIdentiftri")
CleanRazon == CleanOnce("cleanRazonSoci")

\* the result, a string, is cleaned by the same cleaner
CleanAgain ==
  /\ cleanValue.by \in Cleaners
  /\ Len(cleanValue.out) = 1
  /\ cleanValue' = [cleanValue EXCEPT !.out =
       Append(@, Clean(cleanValue.by, Str(cleanValue.out[1])))]
  /\ UNCHANGED <<clientVars, productVars, rawValue>>

(***************************************************************************)
(* What an observer of the requests records: the store content when a      *)
(* request started and when it answered, how many other requests were in   *)
(* flight during it, and the last commit that ran alone.                   *)
(***************************************************************************)
NoHist == [pre |-> {}, post |-> {}, ov |-> 0]

NoLast == [list |-> <<>>, pre |-> {}, post |-> {}, createdCount |-> 0,
           duplicateClients |-> <<>>, status |-> 0]

InFlight(r) == req[r].pc \notin {"idle", "done"}

Bump(n) == IF n < 2 THEN n + 1 ELSE 2

\* a response is collected before the next request is sent
Collected(r) == req[r].pc = "idle" => \A o \in Reqs : req[o].pc # "done"

\* the step taken is a step of request r
Observe(r) ==
  hist' = [o \in Reqs |->
     IF o = r
     THEN IF req[r].pc = "idle"
          THEN [pre |-> clients, post |-> clients',
                ov |-> Cardinality({x \in Reqs \ {r} : InFlight(x)})]
          ELSE IF req[r].pc = "done" THEN NoHist
          ELSE [hist[r] EXCEPT !.post = clients']
     ELSE IF req[r].pc = "idle" /\ InFlight(o)
          THEN [hist[o] EXCEPT !.ov = Bump(@)]
          ELSE hist[o]]

\* the last commit that ran alone and was answered 201, until a request
\* other than a commit of the same list starts
Remember(r) ==
  last' = IF req[r].pc = "idle"
          THEN IF req'[r].kind = "confirm" /\ req'[r].input = last.list
               THEN last ELSE NoLast
          ELSE IF req[r].pc # "done" \/ req[r].kind # "confirm" THEN last
          ELSE IF hist[r].ov = 0 /\ resp[r].status = 201
          THEN [list |-> req[r].input, pre |-> hist[r].pre,
                post |-> hist[r].post,
                createdCount |-> resp[r].createdCount,
                duplicateClients |-> resp[r].duplicateClients,
                status |-> resp[r].status]
          ELSE NoLast

Init ==
  /\ clients = {}
  /\ nextId = 1
  /\ req = [r \in Reqs |-> IdleReq]
  /\ resp = [r \in Reqs |-> NoResp]
  /\ hist = [r \in Reqs |-> NoHist]
  /\ last = NoLast
  /\ report = NoReport
  /\ products = {}
  /\ labs = {}
  /\ categories = {}
  /\ preq = [r \in Reqs |-> IdlePReq]
  /\ presp = [r \in Reqs |-> NoPResp]
  /\ hasCategoryPath = FALSE
  /\ rawValue = Null
  /\ cleanValue = NotCleaned

\* a step that the observer does not record
Quiet == UNCHANGED <<hist, last>>

\* slot r is free for the next request
Free(r) == req[r].pc = "idle" /\ Collected(r)

\* the client write handlers, two requests at a time
Next ==
  \E r \in Reqs :
     \/ /\ Free(r)
        /\ \E newClients \in WriteLists : ConfirmStart(r, newClients)
        /\ Quiet
     \/ \E i \in req[r].todo : ConfirmInsertOne(r, i) /\ Quiet
     \/ ConfirmStoreFail(r) /\ Quiet
     \/ ConfirmRespond(r) /\ Quiet
     \/ /\ Free(r)
        /\ \E body \in CreateBodies : CreateFind(r, body)
        /\ Quiet
     \/ CreateSave(r) /\ Quiet
     \/ /\ Free(r)
        /\ \E body \in UpdateBodies : UpdateFind(r, body)
        /\ Quiet
     \/ UpdateSave(r) /\ Quiet
     \/ /\ Free(r)
        /\ \E list \in BulkLists : BulkStart(r, list)
        /\ Quiet
     \/ BulkFind(r) /\ Quiet
     \/ BulkSave(r) /\ Quiet
     \/ BulkRespond(r) /\ Quiet
     \/ Reset(r) /\ Quiet

Spec == Init /\ [][Next]_vars

\* one request at a time: commits, and createNewClient to fill the store
NextCommit ==
  \/ /\ Free(1)
     /\ \E newClients \in CommitLists : ConfirmStart(1, newClients)
     /\ Observe(1) /\ Remember(1)
  \/ \E i \in req[1].todo : ConfirmInsertOne(1, i) /\ Observe(1) /\ Remember(1)
  \/ ConfirmStoreFail(1) /\ Observe(1) /\ Remember(1)
  \/ ConfirmRespond(1) /\ Observe(1) /\ Remember(1)
  \/ /\ Free(1)
     /\ \E body \in CreateBodies : CreateFind(1, body)
     /\ Observe(1) /\ Remember(1)
  \/ CreateSave(1) /\ Observe(1) /\ Remember(1)
  \/ Reset(1) /\ Observe(1) /\ Remember(1)

SpecCommit == Init /\ [][NextCommit]_vars

\* two requests at a time: commits and createNewClient
NextRace ==
  \E r \in Reqs :
     \/ /\ Free(r)
        /\ \E newClients \in RaceLists : ConfirmStart(r, newClients)
        /\ Observe(r) /\ UNCHANGED last
     \/ \E i \in req[r].todo :
           ConfirmInsertOne(r, i) /\ Observe(r) /\ UNCHANGED last
     \/ ConfirmStoreFail(r) /\ Observe(r) /\ UNCHANGED last
     \/ ConfirmRespond(r) /\ Observe(r) /\ UNCHANGED last
     \/ /\ Free(r)
        /\ \E body \in SeedBodies : CreateFind(r, body)
        /\ Observe(r) /\ UNCHANGED last
     \/ CreateSave(r) /\ Observe(r) /\ UNCHANGED last
     \/ Reset(r) /\ Observe(r) /\ UNCHANGED last

SpecRace == Init /\ [][NextRace]_vars

\* analyses of uploads against a store that createNewClient filled
NextAnalyze ==
  \/ /\ Free(1) /\ report = NoReport
     /\ \E rawClients \in Batches : AnalyzeClients(rawClients)
  \/ Discard
  \/ /\ Free(1) /\ report = NoReport
     /\ \E body \in CreateBodies : CreateFind(1, body)
     /\ Quiet
  \/ CreateSave(1) /\ Quiet
  \/ Reset(1) /\ Quiet

SpecAnalyze == Init /\ [][NextAnalyze]_vars

\* either version of productSchema
InitProducts ==
  /\ clients = {}
  /\ nextId = 1
  /\ req = [r \in Reqs |-> IdleReq]
  /\ resp = [r \in Reqs |-> NoResp]
  /\ hist = [r \in Reqs |-> NoHist]
  /\ last = NoLast
  /\ report = NoReport
  /\ products = {}
  /\ labs = {}
  /\ categories = {}
  /\ preq = [r \in Reqs |-> IdlePReq]
  /\ presp = [r \in Reqs |-> NoPResp]
  /\ hasCategoryPath \in BOOLEAN
  /\ rawValue = Null
  /\ cleanValue = NotCleaned

\* analyses of product uploads, and commits of what they report as ready
NextProducts ==
  \/ /\ preq[1].pc = "idle"
     /\ \E productsData \in ProductBatches : AnalyzeProductsStart(1, productsData)
  \/ LabFind(1)
  \/ LabSave(1)
  \/ CategoryFind(1)
  \/ CategorySave(1)
  \/ ProductOne(1)
  \/ ProductOneFail(1)
  \/ AnalyzeProductsRespond(1)
  \/ /\ Reported(1)
     /\ ConfirmProductsStart(1, presp[1].data.productsReadyForMigration)
  \/ ConfirmProductOne(1)
  \/ ConfirmProductsRespond(1)
  \/ PReset(1)

SpecProducts == InitProducts /\ [][NextProducts]_vars

\* the product collections are as constructed and no product request runs
ProductsUntouched ==
  /\ products = {} /\ labs = {} /\ categories = {}
  /\ preq[1].pc = "idle"

\* the client store is as constructed and no client request runs
ClientsUntouched ==
  /\ clients = {} /\ report = NoReport
  /\ req[1].pc = "idle"

\* analyses in both domains.  The two domains share no collection, so a
\* behaviour works in one of them: the client handlers run while the product
\* collections are as constructed, and the product handlers while the client
\* store is
NextReadOnly ==
  \/ /\ ProductsUntouched
     /\ Free(1) /\ report = NoReport
     /\ \E rawClients \in Batches : AnalyzeClients(rawClients)
  \/ ProductsUntouched /\ Discard
  \/ /\ ProductsUntouched
     /\ Free(1) /\ report = NoReport
     /\ \E body \in CreateBodies : CreateFind(1, body)
     /\ Quiet
  \/ ProductsUntouched /\ CreateSave(1) /\ Quiet
  \/ ProductsUntouched /\ Reset(1) /\ Quiet
  \/ /\ ClientsUntouched
     /\ preq[1].pc = "idle"
     /\ \E productsData \in ProductBatches : AnalyzeProductsStart(1, productsData)
  \/ ClientsUntouched /\ LabFind(1)
  \/ ClientsUntouched /\ LabSave(1)
  \/ ClientsUntouched /\ CategoryFind(1)
  \/ ClientsUntouched /\ CategorySave(1)
  \/ ClientsUntouched /\ ProductOne(1)
  \/ ClientsUntouched /\ ProductOneFail(1)
  \/ ClientsUntouched /\ AnalyzeProductsRespond(1)
  \/ /\ ClientsUntouched
     /\ Reported(1)
     /\ ConfirmProductsStart(1, presp[1].data.productsReadyForMigration)
  \/ ClientsUntouched /\ ConfirmProductOne(1)
  \/ ClientsUntouched /\ ConfirmProductsRespond(1)
  \/ ClientsUntouched /\ PReset(1)

SpecReadOnly == InitProducts /\ [][NextReadOnly]_vars

\* the four handlers of the two migrations, one request at a time
NextShape ==
  \/ NextReadOnly
  \/ /\ ProductsUntouched /\ report = NoReport
     /\ Free(1)
     /\ \E newClients \in WriteLists : ConfirmStart(1, newClients)
     /\ Quiet
  \/ /\ ProductsUntouched /\ report = NoReport
     /\ Free(1) /\ ConfirmNoData(1) /\ Quiet
  \/ /\ ProductsUntouched /\ report = NoReport
     /\ \E i \in req[1].todo : ConfirmInsertOne(1, i) /\ Quiet
  \/ ProductsUntouched /\ report = NoReport /\ ConfirmStoreFail(1) /\ Quiet
  \/ ProductsUntouched /\ report = NoReport /\ ConfirmRespond(1) /\ Quiet

SpecShape == InitProducts /\ [][NextShape]_vars

InitClean ==
  /\ clients = {}
  /\ nextId = 1
  /\ req = [r \in Reqs |-> IdleReq]
  /\ resp = [r \in Reqs |-> NoResp]
  /\ hist = [r \in Reqs |-> NoHist]
  /\ last = NoLast
  /\ report = NoReport
  /\ products = {}
  /\ labs = {}
  /\ categories = {}
  /\ preq = [r \in Reqs |-> IdlePReq]
  /\ presp = [r \in Reqs |-> NoPResp]
  /\ hasCategoryPath = FALSE
  /\ rawValue \in RawValues
  /\ cleanValue = NotCleaned

NextClean ==
  \/ CleanCod
  \/ CleanCuit
  \/ CleanRazon
  \/ CleanAgain

SpecClean == InitClean /\ [][NextClean]_vars

\* C1: no two persisted client rows share a cod_client, and no two share
\* an identiftri, whatever the client write handlers did and however they
\* interleaved
UniqueClientKeys ==
  \A a \in clients : \A b \in clients :
     a.id # b.id => /\ a.cod_client # b.cod_client
                    /\ a.identiftri # b.identiftri

\* C1 (witness): two rows are persisted and the store has rejected the
\* write of a request that had passed its own duplicate check
UniqueClientKeysWitness ==
  /\ Cardinality(clients) = 2
  /\ \E r \in Reqs : req[r].kind \in {"create", "update"}
                     /\ req[r].pc = "done" /\ resp[r].status = 500

(***************************************************************************)
(* Commit reports.  A record of a commit list carries the three fields     *)
(* the handler documents (COD_CLIENT, RAZON_SOCI, IDENTIFTRI).             *)
(***************************************************************************)
WellFormed(L) ==
  \A i \in 1..Len(L) : /\ L[i].COD_CLIENT # <<>>
                       /\ L[i].IDENTIFTRI # <<>>
                       /\ L[i].RAZON_SOCI # <<>>

KeysDistinct(L) ==
  \A i \in 1..Len(L) : \A j \in 1..Len(L) :
     i # j => /\ L[i].COD_CLIENT # L[j].COD_CLIENT
              /\ L[i].IDENTIFTRI # L[j].IDENTIFTRI

KeysAbsent(L, db) ==
  \A i \in 1..Len(L) : \A row \in db :
     /\ row.cod_client # L[i].COD_CLIENT
     /\ row.identiftri # L[i].IDENTIFTRI

RowsFor(L, db) ==
  {row \in db : \E i \in 1..Len(L) :
                   \/ row.cod_client = L[i].COD_CLIENT
                   \/ row.identiftri = L[i].IDENTIFTRI}

RecordsAt(L, S) == [j \in 1..Cardinality(S) |-> L[SortedIdx(S)[j]]]

\* request r has answered the second of two commits of the same list, with
\* no write between the two
SecondCommit(r) ==
  /\ req[r].kind = "confirm" /\ req[r].pc = "done"
  /\ resp[r].status = 201 /\ last.status = 201
  /\ Len(req[r].input) >= 1
  /\ last.list = req[r].input
  /\ hist[r].pre = last.post
  /\ hist[r].ov = 0
  /\ WellFormed(req[r].input)
  /\ KeysDistinct(req[r].input)
  /\ KeysAbsent(req[r].input, last.pre)

\* C2: of two commits of the same list of N records, whose keys are
\* pairwise distinct and absent from the store before the first, with no
\* write in between, the first reports createdCount = N and no duplicate,
\* the second createdCount = 0 and N duplicates, and the store holds N rows
\* for the keys of the list
CommitTwiceAsStated ==
  \A r \in Reqs : SecondCommit(r) =>
     LET L == req[r].input
     IN /\ last.createdCount = Len(L)
        /\ last.duplicateClients = <<>>
        /\ resp[r].createdCount = 0
        /\ Len(resp[r].duplicateClients) = Len(L)
        /\ Cardinality(RowsFor(L, clients)) = Len(L)

\* request r has answered a commit during which the store failed for no
\* other reason than duplicate keys
CommitAnswered(r) ==
  /\ req[r].kind = "confirm" /\ req[r].pc = "done"
  /\ Len(req[r].input) >= 1
  /\ WellFormed(req[r].input)
  /\ req[r].errs = 0

\* the rows of db that hold record rec
Holds(db, rec) ==
  {row \in db : /\ row.cod_client = rec.COD_CLIENT
                /\ row.identiftri = rec.IDENTIFTRI}

\* C3: of the N records of a commit, the k that the store rejected for a
\* unique index are the entries of duplicateClients, the N - k others are
\* persisted, createdCount = N - k, and the request is answered 201
PartialFailureIsolation ==
  \A r \in Reqs : CommitAnswered(r) =>
     LET L == req[r].input
         rejected == req[r].failed
         k == Cardinality(rejected)
     IN /\ resp[r].status = 201
        /\ resp[r].createdCount = Len(L) - k
        /\ resp[r].duplicateClients = RecordsAt(L, rejected)
        /\ Cardinality(hist[r].post) - Cardinality(hist[r].pre) = Len(L) - k
        /\ \A i \in (1..Len(L)) \ rejected :
              Holds(hist[r].post, L[i]) \ hist[r].pre # {}

\* C3 (witness): a commit of two records, one rejected, one persisted
PartialFailureWitness ==
  \E r \in Reqs : /\ CommitAnswered(r)
                  /\ Len(req[r].input) = 2
                  /\ Cardinality(req[r].failed) = 1
                  /\ resp[r].createdCount = 1

\* request r has answered a commit that reached the bulk insert
CommitInserted(r) ==
  /\ req[r].kind = "confirm" /\ req[r].pc = "done"
  /\ ValidDocs(clientsToCreate(req[r].input)) # {}

\* C10: a commit whose bulk insert failed for duplicate keys only is
\* answered 201 with a commit report; it is answered with an error only
\* when the store failed in another way
OnlyStoreFailureIsFatal ==
  \A r \in Reqs : CommitInserted(r) =>
     /\ (req[r].failed # {} /\ req[r].errs = 0) =>
           /\ resp[r].status = 201
           /\ Len(resp[r].duplicateClients) = Cardinality(req[r].failed)
     /\ resp[r].status # 201 => req[r].errs = 1

\* C10 (witness): a commit is answered 201 although every document of its
\* bulk insert was rejected for a duplicate key
OnlyStoreFailureWitness ==
  \E r \in Reqs : /\ CommitInserted(r)
                  /\ req[r].errs = 0
                  /\ req[r].nIns = 0
                  /\ Cardinality(req[r].failed) = Len(req[r].input)
                  /\ resp[r].status = 201

(***************************************************************************)
(* Two commits in flight at the same time.                                 *)
(***************************************************************************)
\* both requests have answered a commit, each ran while the other was in
\* flight and no third request did, and the store did not fail otherwise
TwoCommits ==
  /\ \A r \in Reqs : /\ req[r].kind = "confirm" /\ req[r].pc = "done"
                     /\ hist[r].ov = 1
                     /\ req[r].errs = 0
                     /\ Len(req[r].input) >= 1
                     /\ WellFormed(req[r].input)

StoreBefore == hist[1].pre \cup hist[2].pre

\* the keys that a record of each list carries and no row had when the
\* requests started
SharedCods ==
  ({x.COD_CLIENT : x \in Range(req[1].input)}
     \cap {x.COD_CLIENT : x \in Range(req[2].input)})
  \ {row.cod_client : row \in StoreBefore}

SharedCuits ==
  ({x.IDENTIFTRI : x \in Range(req[1].input)}
     \cap {x.IDENTIFTRI : x \in Range(req[2].input)})
  \ {row.identiftri : row \in StoreBefore}

ListsCod(r, c) == \E x \in Range(resp[r].duplicateClients) : x.COD_CLIENT = c
ListsCuit(r, t) == \E x \in Range(resp[r].duplicateClients) : x.IDENTIFTRI = t

\* the smaller of the two store contents: the store before the first start
RowsAdded ==
  LET a == Cardinality(hist[1].pre)
      b == Cardinality(hist[2].pre)
  IN Cardinality(clients) - (IF a <= b THEN a ELSE b)

BothReport ==
  /\ \A r \in Reqs : resp[r].status = 201
  /\ resp[1].createdCount + resp[2].createdCount = RowsAdded

\* C4 (as stated): for a key shared by two concurrent commits and not yet
\* in the store, exactly one row with that key is persisted, both requests
\* are answered with a commit report, exactly one of them lists the record
\* in duplicateClients, and the createdCount values add up to the rows added
ConcurrentCommitsAsStated ==
  TwoCommits =>
     /\ BothReport
     /\ \A c \in SharedCods :
           /\ Cardinality({row \in clients : row.cod_client = c}) = 1
           /\ ListsCod(1, c) # ListsCod(2, c)
     /\ \A t \in SharedCuits :
           /\ Cardinality({row \in clients : row.identiftri = t}) = 1
           /\ ListsCuit(1, t) # ListsCuit(2, t)

\* how many records of list L carry cod_client c, or identiftri t
CodCount(L, c) == Cardinality({i \in 1..Len(L) : L[i].COD_CLIENT = c})
CuitCount(L, t) == Cardinality({i \in 1..Len(L) : L[i].IDENTIFTRI = t})

\* the records with the key that the two requests submitted and did not
\* list in duplicateClients
CodUnlisted(c) ==
  CodCount(req[1].input, c) + CodCount(req[2].input, c)
    - CodCount(resp[1].duplicateClients, c)
    - CodCount(resp[2].duplicateClients, c)

CuitUnlisted(t) ==
  CuitCount(req[1].input, t) + CuitCount(req[2].input, t)
    - CuitCount(resp[1].duplicateClients, t)
    - CuitCount(resp[2].duplicateClients, t)

\* C4 (amended): both requests are answered with a commit report and the
\* createdCount values add up to the rows added; at most one row with the
\* shared key is persisted; every record with that key, but the one that
\* was persisted (if any), is listed in duplicateClients of the request
\* that submitted it
ConcurrentCommits ==
  TwoCommits =>
     /\ BothReport
     /\ \A c \in SharedCods :
           LET rows == Cardinality({row \in clients : row.cod_client = c})
           IN rows <= 1 /\ CodUnlisted(c) = rows
     /\ \A t \in SharedCuits :
           LET rows == Cardinality({row \in clients : row.identiftri = t})
           IN rows <= 1 /\ CuitUnlisted(t) = rows

\* C4 (witness): two concurrent commits of lists that share a key, one row
\* persisted, one request with createdCount = 1 and the other listing its
\* record
ConcurrentCommitsWitness ==
  /\ TwoCommits
  /\ SharedCods # {} /\ SharedCuits # {}
  /\ resp[1].createdCount = 1 /\ resp[2].createdCount = 0
  /\ resp[2].duplicateClients = req[2].input

(***************************************************************************)
(* Analysis reports.                                                       *)
(***************************************************************************)
Analyzed == report # NoReport /\ report.res.status = 200

\* how many entries of list L satisfy Same, for the lists of a report
CountKeys(L, c) == Cardinality({i \in 1..Len(L) : Keys(L[i]) = c})

CountData(L, c) ==
  Cardinality({i \in 1..Len(L) : Keys(cleanedClient(L[i].data)) = c})

CleanedBatch ==
  [i \in 1..Len(report.batch) |-> Keys(cleanedClient(report.batch[i]))]

\* C5: every received record of a non-empty batch is in exactly one of
\* newClients, currentClients, conflictingClients and invalidRows, and the
\* four totals of the summary add up to totalReceived
ClassificationComplete ==
  Analyzed =>
     LET data == report.res.data
         summary == report.res.summary
     IN /\ summary.totalReceived = Len(report.batch)
        /\ summary.totalNew = Len(data.newClients)
        /\ summary.totalCurrent = Len(data.currentClients)
        /\ summary.totalConflicts = Len(data.conflictingClients)
        /\ summary.totalInvalid = Len(data.invalidRows)
        /\ summary.totalNew + summary.totalCurrent + summary.totalConflicts
             + summary.totalInvalid = summary.totalReceived
        /\ \A c \in Range(CleanedBatch) :
              CountKeys(CleanedBatch, c)
                = CountKeys(data.newClients, c)
                  + CountKeys(data.currentClients, c)
                  + CountKeys(data.conflictingClients, c)
                  + CountData(data.invalidRows, c)

\* C5 (witness): a batch of three records, one New, one Conflicting, one
\* invalid
ClassificationCompleteWitness ==
  /\ Analyzed
  /\ Len(report.batch) = 3
  /\ Len(report.res.data.newClients) = 1
  /\ Len(report.res.data.conflictingClients) = 1
  /\ Len(report.res.data.invalidRows) = 1

\* the valid candidates of the report, and what the loop did with each
Candidates == report.res.valid
Disposition == report.res.dispositions

StoreCods == {row.cod_client : row \in report.db}
StoreCuits == {row.identiftri : row \in report.db}

\* the entry of conflictingClients for candidate k
ConflictOf(k) ==
  report.res.data.conflictingClients[
     Cardinality({i \in 1..k : Disposition[i] = "conflict"})]

DuplicatedInFile(k) ==
  /\ Disposition[k] = "conflict"
  /\ \/ ConflictOf(k).conflictReason = <<COD_DUPLICADO, Candidates[k].COD_CLIENT>>
     \/ ConflictOf(k).conflictReason = <<CUIT_DUPLICADO, Candidates[k].IDENTIFTRI>>

ShareKey(i, j) ==
  \/ Candidates[i].COD_CLIENT = Candidates[j].COD_CLIENT
  \/ Candidates[i].IDENTIFTRI = Candidates[j].IDENTIFTRI

\* candidates i < j share a key and no key of either is in the store
SharingPair(i, j) ==
  /\ i < j
  /\ ShareKey(i, j)
  /\ \A k \in {i, j} : /\ Candidates[k].COD_CLIENT \notin StoreCods
                       /\ Candidates[k].IDENTIFTRI \notin StoreCuits

RuleAt(v, k, before, cods, cuits) ==
  LET earlierNew == {i \in 1..(k - 1) : before[i] = "e"}
  IN IF v[k].COD_CLIENT \in cods THEN "a"
     ELSE IF v[k].IDENTIFTRI \in cuits THEN "b"
     ELSE IF \E i \in earlierNew : v[i].COD_CLIENT = v[k].COD_CLIENT THEN "c"
     ELSE IF \E i \in earlierNew : v[i].IDENTIFTRI = v[k].IDENTIFTRI THEN "d"
     ELSE "e"

RECURSIVE Rules(_, _, _, _)
Rules(v, n, cods, cuits) ==
  IF n = 0 THEN <<>>
  ELSE LET before == Rules(v, n - 1, cods, cuits)
       IN Append(before, RuleAt(v, n, before, cods, cuits))

RuleConflict(client, rule) ==
  CASE rule = "b" -> Conflict(client, CUIT_EN_USO, client.IDENTIFTRI)
    [] rule = "c" -> Conflict(client, COD_DUPLICADO, client.COD_CLIENT)
    [] rule = "d" -> Conflict(client, CUIT_DUPLICADO, client.IDENTIFTRI)

\* C9: every valid candidate is disposed by the first rule that matches it
\* in the order (a) cod_client in store: Current, (b) identiftri in store:
\* Conflicting, (c) cod_client of an earlier New candidate: Conflicting,
\* (d) identiftri of an earlier New candidate: Conflicting, (e) New; the
\* lists hold the candidates of their rules in input order, with the
\* reason of the rule
RulePriority ==
  Analyzed =>
     LET v == Candidates
         rules == Rules(v, Len(v), StoreCods, StoreCuits)
         at(S) == RecordsAt(v, {k \in 1..Len(v) : rules[k] \in S})
         conflicts == {k \in 1..Len(v) : rules[k] \in {"b", "c", "d"}}
         data == report.res.data
     IN /\ data.currentClients = at({"a"})
        /\ data.newClients = at({"e"})
        /\ data.conflictingClients =
              [n \in 1..Cardinality(conflicts) |->
                 RuleConflict(v[SortedIdx(conflicts)[n]],
                              rules[SortedIdx(conflicts)[n]])]
        /\ \A k \in 1..Len(v) :
              Disposition[k] = (CASE rules[k] = "a" -> "current"
                                  [] rules[k] = "e" -> "new"
                                  [] OTHER -> "conflict")

\* C9 (witness): a candidate whose cod_client is in the store and whose
\* identiftri is the one of another row is Current
RulePriorityWitness ==
  /\ Analyzed
  /\ \E k \in 1..Len(Candidates) :
        /\ Disposition[k] = "current"
        /\ \E row \in report.db : /\ row.identiftri = Candidates[k].IDENTIFTRI
                                  /\ row.cod_client # Candidates[k].COD_CLIENT

(***************************************************************************)
(* Analysis of product uploads                                             *)
(***************************************************************************)
\* a row whose lab or category normalizes to "BAJA"
PreFiltered(row) ==
  \/ normalizeName(row.lab) = BAJA
  \/ normalizeName(row.category) = BAJA

\* what every list keeps of a row: its trimmed code and its description
ProductKey(row) == <<trim(row.code), row.desc>>

ListedRows(list) == [n \in DOMAIN list |-> list[n]]
ListedData(list) == [n \in DOMAIN list |-> list[n].data]

\* the rows of the four lists of the report held by request 1
ProductLists ==
  LET data == presp[1].data
  IN ListedRows(data.newProducts) \o ListedRows(data.currentProducts)
       \o ListedRows(data.conflictingProducts) \o ListedData(data.invalidRows)

CountProducts(rows, key) ==
  Cardinality({n \in DOMAIN rows : ProductKey(rows[n]) = key})

\* C6: in every report of analyzeProducts each row that is not pre-filtered
\* appears in exactly one of newProducts, currentProducts,
\* conflictingProducts and invalidRows (the lists together hold a row as
\* often as the batch holds it outside the pre-filtered rows), no
\* pre-filtered row appears in a list, and totalNew + totalCurrent +
\* totalConflicts + totalInvalid = totalReceived - totalFilteredOut, the
\* totals being the lengths of the lists and the number of pre-filtered rows
ProductClassificationComplete ==
  Reported(1) =>
     LET input == preq[1].input
         kept == SelectSeq(input, LAMBDA row : ~PreFiltered(row))
         data == presp[1].data
         summary == presp[1].summary
     IN /\ \A i \in DOMAIN input :
              CountProducts(ProductLists, ProductKey(input[i]))
                 = CountProducts(kept, ProductKey(input[i]))
        /\ Len(ProductLists) = Len(kept)
        /\ \A n \in DOMAIN ProductLists : ~PreFiltered(ProductLists[n])
        /\ summary.totalReceived = Len(input)
        /\ summary.totalFilteredOut = Len(input) - Len(kept)
        /\ summary.totalNew = Len(data.newProducts)
        /\ summary.totalCurrent = Len(data.currentProducts)
        /\ summary.totalConflicts = Len(data.conflictingProducts)
        /\ summary.totalInvalid = Len(data.invalidRows)
        /\ summary.totalNew + summary.totalCurrent + summary.totalConflicts
             + summary.totalInvalid
             = summary.totalReceived - summary.totalFilteredOut

\* C6 (witness): a report on a batch with a pre-filtered row and a row whose
\* code is persisted, which is listed as Current or as Conflicting
ProductClassificationCompleteWitness ==
  /\ Reported(1)
  /\ presp[1].summary.totalFilteredOut >= 1
  /\ presp[1].summary.totalCurrent + presp[1].summary.totalConflicts >= 1

\* a row that passes every check of the analysis
OtherwiseValid(row) ==
  /\ ~PreFiltered(row)
  /\ trim(row.code) # <<>>
  /\ normalizeName(row.lab) # <<>>
  /\ normalizeName(row.category) # <<>>
  /\ row.desc # <<>>

\* the store did not fail while the batch of request 1 was analyzed
NoInternalError ==
  \A n \in DOMAIN presp[1].data.invalidRows :
     presp[1].data.invalidRows[n].errors # <<ERROR_INTERNO>>

\* C8: when two otherwise valid rows of one batch carry the same product
\* code and the code is not in the store, the first is classified New and
\* the second Conflicting, so that productsReadyForMigration never holds
\* two entries with the same code
ProductDuplicatesAsStated ==
  (Reported(1) /\ NoInternalError) =>
     LET input == preq[1].input
         data == presp[1].data
         ready == data.productsReadyForMigration
     IN /\ \A i, j \in DOMAIN input :
              (/\ i < j
               /\ OtherwiseValid(input[i]) /\ OtherwiseValid(input[j])
               /\ trim(input[i].code) = trim(input[j].code)
               /\ \A h \in 1..(i - 1) :
                     trim(input[h].code) # trim(input[i].code)
               /\ ~\E p \in products : p.code = trim(input[i].code))
              => /\ \E n \in DOMAIN data.newProducts :
                       ProductKey(data.newProducts[n]) = ProductKey(input[i])
                 /\ \E n \in DOMAIN data.conflictingProducts :
                       ProductKey(data.conflictingProducts[n])
                          = ProductKey(input[j])
        /\ \A m, n \in DOMAIN ready : ready[m].code = ready[n].code => m = n

(***************************************************************************)
(* Frame of the analyses                                                   *)
(***************************************************************************)
\* a step in which analyzeClients answers
AnalyzeClientsStep == report = NoReport /\ report' # NoReport

\* a step of an analyzeProducts handler
AnalyzeProductsStep == preq'[1].kind = "analyze" /\ preq'[1] # preq[1]

\* C11: analyzeClients leaves the client store unchanged for every input,
\* and analyzeProducts leaves the product store unchanged for every input;
\* the only rows that analyzeProducts adds are Lab and Category rows (no
\* row of either collection is removed or changed)
ReadOnlyAnalysis ==
  [][/\ AnalyzeClientsStep =>
          /\ clients' = clients
          /\ UNCHANGED <<products, labs, categories>>
     /\ AnalyzeProductsStep =>
          /\ products' = products
          /\ clients' = clients
          /\ labs \subseteq labs'
          /\ categories \subseteq categories']_vars

\* C11 (witness): analyzeProducts has reported a New row, for which it has
\* created the Lab and Category rows, and the product store holds another
\* row and not that one
ReadOnlyAnalysisWitness ==
  /\ Reported(1)
  /\ products # {}
  /\ labs # {} /\ categories # {}
  /\ \E n \in DOMAIN presp[1].data.newProducts :
        \A p \in products : p.code # presp[1].data.newProducts[n].code

(***************************************************************************)
(* Requests without a batch                                                *)
(***************************************************************************)
Stores == <<clients, products, labs, categories>>

\* request 1 of the client domain begins a commit without records
ConfirmClientsEmpty ==
  /\ req[1].pc = "idle"
  /\ req'[1].kind = "confirm" /\ req'[1].input = <<>>

\* request 1 of the product domain begins handler kind without rows
ProductsEmpty(kind) ==
  /\ preq[1].pc \in {"idle", "done"} /\ preq'[1] # preq[1]
  /\ preq'[1].kind = kind /\ preq'[1].input = <<>>

\* C12: each of analyzeClients, confirmClientMigration, analyzeProducts and
\* confirmProductMigration answers a missing or empty batch with status 400
\* in its first step, before it reads or writes a store, and leaves every
\* store unchanged
ShapeErrorAsStated ==
  [][/\ (AnalyzeClientsStep /\ report'.batch = <<>>) =>
          /\ report'.res.status = 400
          /\ UNCHANGED Stores
     /\ ConfirmClientsEmpty =>
          /\ resp'[1].status = 400 /\ req'[1].pc = "done"
          /\ UNCHANGED Stores
     /\ (ProductsEmpty("analyze") \/ ProductsEmpty("confirm")) =>
          /\ presp'[1].status = 400 /\ preq'[1].pc = "done"
          /\ UNCHANGED Stores]_vars

(***************************************************************************)
(* Batches without a valid record                                          *)
(***************************************************************************)
\* C13: analyzeClients answers a non-empty batch in which no record passes
\* validation with status 404 and without a classification report
NoValidClientAsStated ==
  (/\ report # NoReport
   /\ Len(report.batch) > 0
   /\ validClientsOf([i \in 1..Len(report.batch) |->
                        cleanedClient(report.batch[i])]) = <<>>)
  => /\ report.res.status = 404
     /\ report.res.data = <<>>

(***************************************************************************)
(* Records that fail validation                                            *)
(***************************************************************************)
IsValidRaw(raw) == clientObjectSchemaErrors(Keys(cleanedClient(raw))) = <<>>

IsInvalidRaw(raw) == ~IsValidRaw(raw)

Committed(r) ==
  /\ preq[r].kind = "confirm" /\ preq[r].pc = "done"
  /\ presp[r].status = 201

\* C15: in both domains the analysis of a batch with candidates issues
\* exactly one store lookup for their classification, and a commit of N >= 1
\* records issues exactly one bulk write, whatever N is
RoundTripsAsStated ==
  /\ (Analyzed /\ Len(Candidates) >= 1) => report.res.lookups = 1
  /\ (req[1].kind = "confirm" /\ req[1].pc = "done" /\ resp[1].status = 201)
        => req[1].bulks = 1
  /\ (/\ Reported(1)
      /\ presp[1].summary.totalNew + presp[1].summary.totalCurrent
           + presp[1].summary.totalConflicts >= 1)
        => preq[1].finds = 1
  /\ Committed(1) => preq[1].saves = 1

(***************************************************************************)
(* The cleaners                                                            *)
(***************************************************************************)
\* C16: for every string or number input each of cleanCodClient,
\* cleanIdentiftri and cleanRazonSoci returns for its own result the same
\* result
NormalizationIdempotent ==
  (rawValue.t \in {"string", "number"} /\ Len(cleanValue.out) = 2)
     => cleanValue.out[2] = cleanValue.out[1]

\* C16 (witness): cleanRazonSoci has changed a string, to something other
\* than the default, and has cleaned its result again
NormalizationIdempotentWitness ==
  /\ rawValue.t = "string"
  /\ cleanValue.by = "cleanRazonSoci"
  /\ Len(cleanValue.out) = 2
  /\ cleanValue.out[1] # rawValue.s
  /\ cleanValue.out[1] # SIN_CARGA_INICIAL

\* C17: for every input that is neither a string nor a number each cleaner
\* returns the empty string (and does not throw)
OtherTypesEmptyAsStated ==
  (rawValue.t \notin {"string", "number"} /\ cleanValue.out # <<>>)
     => cleanValue.out[1] = <<>>

IsLower(ch) == ch \in LowerLetters

\* the letters of s in their order, in upper case
RECURSIVE LettersOf(_)
LettersOf(s) ==
  IF s = <<>> THEN <<>>
  ELSE (IF IsLetter(Head(s)) THEN <<Head(s)>>
        ELSE IF IsLower(Head(s)) THEN <<toUpperCase(Head(s))>>
        ELSE <<>>) \o LettersOf(Tail(s))

RECURSIVE DigitsOf(_)
DigitsOf(s) ==
  IF s = <<>> THEN <<>>
  ELSE (IF IsDigit(Head(s)) THEN <<Head(s)>> ELSE <<>>) \o DigitsOf(Tail(s))

\* C18: for every string input cleanCodClient returns the letters of the
\* input in upper case and in their order, followed by the digits of the
\* input in their order, and nothing else; cleanIdentiftri returns the
\* digits of the input in their order and nothing else
CleanersExtract ==
  (rawValue.t = "string" /\ cleanValue.out # <<>>) =>
     /\ cleanValue.by = "cleanCodClient" =>
           cleanValue.out[1] = LettersOf(rawValue.s) \o DigitsOf(rawValue.s)
     /\ cleanValue.by = "cleanIdentiftri" =>
           cleanValue.out[1] = DigitsOf(rawValue.s)

\* C18 (witness): cleanCodClient has moved a letter in front of a digit and
\* dropped a separator
CleanersExtractWitness ==
  /\ rawValue = Str(<<"1", "-", "a">>)
  /\ cleanValue.by = "cleanCodClient"
  /\ cleanValue.out = <<(<<"A", "1">>)>>

(***************************************************************************)
(* Validity of a record                                                    *)
(***************************************************************************)
\* exactly 3 letters followed by exactly 3 digits
CodShape(cod) ==
  /\ Len(cod) = 6
  /\ \A i \in 1..3 : IsLetter(cod[i])
  /\ \A i \in 4..6 : IsDigit(cod[i])

\* exactly 11 digits
CuitShape(cuit) ==
  /\ Len(cuit) = 11
  /\ \A i \in 1..11 : IsDigit(cuit[i])

ShapeOk(raw) ==
  /\ CodShape(cleanCodClient(raw.COD_CLIENT))
  /\ CuitShape(cleanIdentiftri(raw.IDENTIFTRI))

ShapeNotOk(raw) == ~ShapeOk(raw)

\* C19: analyzeClients treats a record as valid exactly if its normalized
\* cod_client is 3 letters followed by 3 digits and its normalized
\* identiftri is 11 digits; the business name rejects no record, and a
\* blank one is replaced by the default; a record yields either a clean
\* record or a list of error messages, never both
ValidIffShape ==
  (report # NoReport /\ Len(report.batch) > 0) =>
     LET good == SelectSeq(report.batch, ShapeOk)
         bad == SelectSeq(report.batch, ShapeNotOk)
         valid == report.res.valid
         invalidRows == report.res.data.invalidRows
     IN /\ Len(valid) = Len(good)
        /\ \A n \in DOMAIN good :
              /\ valid[n].COD_CLIENT = cleanCodClient(good[n].COD_CLIENT)
              /\ valid[n].IDENTIFTRI = cleanIdentiftri(good[n].IDENTIFTRI)
              /\ valid[n].RAZON_SOCI # <<>>
              /\ trim(StringOrEmpty(good[n].RAZON_SOCI)) = <<>>
                    => valid[n].RAZON_SOCI = SIN_CARGA_INICIAL
        /\ Len(invalidRows) = Len(bad)
        /\ \A n \in DOMAIN bad :
              /\ invalidRows[n].data = bad[n]
              /\ invalidRows[n].errors # <<>>
        /\ Len(valid) + Len(invalidRows) = Len(report.batch)

\* C19 (witness): a report with a valid record whose blank business name
\* was replaced by the default, and with a record rejected for its
\* identiftri alone
ValidIffShapeWitness ==
  /\ Analyzed
  /\ \E n \in DOMAIN report.res.valid :
        report.res.valid[n].RAZON_SOCI = SIN_CARGA_INICIAL
  /\ \E n \in DOMAIN report.res.data.invalidRows :
        CodShape(cleanCodClient(report.res.data.invalidRows[n].data.COD_CLIENT))

(***************************************************************************)
(* createNewClient against concurrent writers                              *)
(***************************************************************************)
\* request r, a createNewClient, is answered in this step
CreateAnswered(r) ==
  /\ req[r].pc # "done"
  /\ req'[r].kind = "create" /\ req'[r].pc = "done"

\* a persisted row holds a key of the body
KeyPersisted(body) ==
  \E row \in clients : \/ row.cod_client = body.cod_client
                       \/ row.identiftri = body.identiftri
                       \/ row.username = finalUsername(body)

\* C20: whenever a client with the same cod_client, identiftri or username
\* is persisted when createNewClient looks it up or when its insert reaches
\* the store, the request is answered with 409 and persists nothing, also
\* when another createNewClient or a confirmClientMigration has written the
\* key in between
CreateConflictAsStated ==
  [][\A r \in Reqs :
        (CreateAnswered(r) /\ KeyPersisted(req'[r].input))
           => /\ resp'[r].status = 409
              /\ clients' = clients]_vars

(***************************************************************************)
(* Rows whose code is persisted                                            *)
(***************************************************************************)
\* the id of the lookup row of a name, NoId when the store has none
StoredId(rows, name) ==
  IF \E row \in rows : row.name = name
  THEN (CHOOSE row \in rows : row.name = name).id
  ELSE NoId

Listed(list, row) ==
  \E n \in DOMAIN list : ProductKey(list[n]) = ProductKey(row)

MaxLookupRows == 1

LookupRows ==
  {ProductRow(P1, <<"a", "b">>, <<"c">>, <<"d", "1">>),
   ProductRow(P2, <<"X">>, <<"c">>, <<"d", "1">>),
   ProductRow(P2, <<"a", "b">>, <<>>, <<"d", "1">>),
   ProductRow(P2, <<" ">>, <<"c">>, <<"d", "1">>)}

LookupBatches == SeqsUpTo(LookupRows, MaxLookupRows)

\* two requests of the product domain, their store calls interleaved
NextLookups ==
  \/ \E r \in Reqs : /\ preq[r].pc = "idle"
                     /\ \E productsData \in LookupBatches :
                           AnalyzeProductsStart(r, productsData)
  \/ \E r \in Reqs : LabFind(r)
  \/ \E r \in Reqs : LabSave(r)
  \/ \E r \in Reqs : CategoryFind(r)
  \/ \E r \in Reqs : CategorySave(r)
  \/ \E r \in Reqs : ProductOne(r)
  \/ \E r \in Reqs : ProductOneFail(r)
  \/ \E r \in Reqs : AnalyzeProductsRespond(r)
  \/ \E r \in Reqs : /\ Reported(r)
                     /\ ConfirmProductsStart(r,
                           presp[r].data.productsReadyForMigration)
  \/ \E r \in Reqs : ConfirmProductOne(r)
  \/ \E r \in Reqs : ConfirmProductsRespond(r)

SpecLookups == InitProducts /\ [][NextLookups]_vars

(***************************************************************************)
(* Rows whose laboratory or category is not resolved                       *)
(***************************************************************************)
\* the row's laboratory or category has no id in the maps of request r
Unresolved(r, row) ==
  \/ IdOf(preq[r].labsMap, normalizeName(row.lab)) = NoId
  \/ IdOf(preq[r].categoriesMap, normalizeName(row.category)) = NoId

UnresolvedRows(r, rows) ==
  LET Test(row) == Unresolved(r, row)
  IN SelectSeq(rows, Test)

\* C22: in every report of analyzeProducts the rows whose laboratory or
\* category is not resolved (blank name, or lookup row neither found nor
\* created) are exactly the unresolved rows of invalidRows, in the order of
\* the batch, the four lists hold as many entries as rows were analyzed (so
\* that such a row is in none of the other three lists), and every entry of
\* newProducts and of productsReadyForMigration carries a laboratory id and
\* a category id
UnresolvedIsInvalid ==
  \A r \in Reqs :
     Reported(r) =>
        LET data == presp[r].data
        IN /\ UnresolvedRows(r, ListedData(data.invalidRows))
                = UnresolvedRows(r, preq[r].toAnalyze)
           /\ Len(data.newProducts) + Len(data.currentProducts)
                + Len(data.conflictingProducts) + Len(data.invalidRows)
                = Len(preq[r].toAnalyze)
           /\ \A n \in DOMAIN data.newProducts :
                 /\ data.newProducts[n].labObjectId # NoId
                 /\ data.newProducts[n].categoryObjectId # NoId
                 /\ IdOf(preq[r].labsMap, data.newProducts[n].lab) # NoId
                 /\ IdOf(preq[r].categoriesMap, data.newProducts[n].category)
                      # NoId
           /\ \A n \in DOMAIN data.productsReadyForMigration :
                 /\ data.productsReadyForMigration[n].lab # NoId
                 /\ data.productsReadyForMigration[n].category # NoId

\* one report lists a row as invalid whose laboratory could not be created
\* (another request saved the name first), the other a row with a blank
\* category
UnresolvedIsInvalidWitness ==
  \E r, o \in Reqs :
     /\ r # o /\ Reported(r) /\ Reported(o)
     /\ \E n \in DOMAIN presp[r].data.invalidRows :
           LET entry == presp[r].data.invalidRows[n]
           IN /\ normalizeName(entry.data.lab) # <<>>
              /\ IdOf(preq[r].labsMap, normalizeName(entry.data.lab)) = NoId
              /\ entry.errors = <<LAB_NO_ENCONTRADO>>
     /\ \E n \in DOMAIN presp[o].data.invalidRows :
           LET entry == presp[o].data.invalidRows[n]
           IN /\ normalizeName(entry.data.category) = <<>>
              /\ entry.errors = <<CAT_NO_ENCONTRADA>>

\* C29: when two analyzeProducts requests run at the same time and both
\* name a laboratory (or category) that is not persisted, then under every
\* interleaving one lookup row of that name is created, and no request
\* lists a row as invalid for an unresolved laboratory (or category) whose
\* lookup row is in the store when the request classifies its rows
ConcurrentLookupsAsStated ==
  /\ \A lab, other \in labs : lab.name = other.name => lab = other
  /\ \A category, other \in categories :
        category.name = other.name => category = other
  /\ \A r \in Reqs :
        (preq[r].kind = "analyze" /\ preq[r].pc = "products") =>
           \A n \in DOMAIN preq[r].out.productsWithErrors :
              LET entry == preq[r].out.productsWithErrors[n]
              IN /\ entry.errors = <<LAB_NO_ENCONTRADO>> =>
                      \A lab \in labs :
                         lab.name # normalizeName(entry.data.lab)
                 /\ entry.errors = <<CAT_NO_ENCONTRADA>> =>
                      \A category \in categories :
                         category.name # normalizeName(entry.data.category)

(***************************************************************************)
(* Order of the records in a report                                        *)
(***************************************************************************)
\* the four sequences a, b, c, d are disjoint subsequences of batch that
\* together make up batch
RECURSIVE Interleaved(_, _, _, _, _)
Interleaved(batch, a, b, c, d) ==
  IF batch = <<>>
  THEN a = <<>> /\ b = <<>> /\ c = <<>> /\ d = <<>>
  ELSE \/ /\ a # <<>> /\ Head(a) = Head(batch)
          /\ Interleaved(Tail(batch), Tail(a), b, c, d)
       \/ /\ b # <<>> /\ Head(b) = Head(batch)
          /\ Interleaved(Tail(batch), a, Tail(b), c, d)
       \/ /\ c # <<>> /\ Head(c) = Head(batch)
          /\ Interleaved(Tail(batch), a, b, Tail(c), d)
       \/ /\ d # <<>> /\ Head(d) = Head(batch)
          /\ Interleaved(Tail(batch), a, b, c, Tail(d))

KeysOf(list) == [n \in DOMAIN list |-> Keys(list[n])]
KeysOfData(list) == [n \in DOMAIN list |-> Keys(cleanedClient(list[n].data))]

NewBucketInvariant ==
  Analyzed =>
     LET newClients == report.res.data.newClients
     IN /\ \A i, j \in DOMAIN newClients :
              i # j => /\ newClients[i].COD_CLIENT # newClients[j].COD_CLIENT
                       /\ newClients[i].IDENTIFTRI # newClients[j].IDENTIFTRI
        /\ \A i \in DOMAIN newClients :
              /\ newClients[i].COD_CLIENT \notin StoreCods
              /\ newClients[i].IDENTIFTRI \notin StoreCuits

\* a report with a New record on a batch that also holds a record with the
\* CUIT of a stored client under another code and a record that repeats a
\* key of the New one
NewBucketInvariantWitness ==
  /\ Analyzed
  /\ Len(report.res.data.newClients) = 1
  /\ \E n \in DOMAIN report.res.data.conflictingClients :
        report.res.data.conflictingClients[n].conflictReason[1] = CUIT_EN_USO
  /\ \E n \in DOMAIN report.res.data.conflictingClients :
        report.res.data.conflictingClients[n].conflictReason[1]
           \in {COD_DUPLICADO, CUIT_DUPLICADO}

(***************************************************************************)
(* confirmProductMigration on lists that the caller composes               *)
(***************************************************************************)
MaxMigrate == 2

ToMigrate(code, desc, lab, category) ==
  [code |-> code, desc |-> desc, lab |-> lab, category |-> category]

MigrateRecords ==
  {ToMigrate(P1, <<"d", "1">>, 1, 1),
   ToMigrate(P2, <<"d", "1">>, 1, 2),
   ToMigrate(P1, <<"d", "2">>, 2, 1),
   ToMigrate(P2, <<"d", "1">>, NoId, 1),
   ToMigrate(P2, <<"d", "1">>, 1, BadId),
   ToMigrate(<<>>, <<"d", "1">>, 1, 1)}

MigrateLists == SeqsUpTo(MigrateRecords, MaxMigrate)

NextMigrate ==
  \/ /\ preq[1].pc = "idle"
     /\ \E productsToMigrate \in MigrateLists :
           ConfirmProductsStart(1, productsToMigrate)
  \/ ConfirmProductOne(1)
  \/ ConfirmProductsRespond(1)
  \/ PReset(1)

SpecMigrate == InitProducts /\ [][NextMigrate]_vars

\* the record passes the two id checks of the handler
IdsOk(productData) ==
  /\ productData.lab \notin {NoId, BadId}
  /\ productData.category \notin {NoId, BadId}

ErrorsOn(r, productData) ==
  {n \in DOMAIN presp[r].data.migrationErrors :
      presp[r].data.migrationErrors[n].data = productData}

\* C24: confirmProductMigration answers every non-empty list of N products
\* with 201 and createdCount + migrationErrors.length = N; a record whose
\* laboratory or category id is missing or malformed, or that the store
\* rejects (no code, or a code that is persisted under other values), is
\* listed in migrationErrors and not persisted; and every record that
\* passes the id checks was handed to the store wherever it stands in the
\* list: it is persisted or listed in migrationErrors
FailuresIsolated ==
  (preq[1].kind = "confirm" /\ preq[1].pc = "done" /\ preq[1].input # <<>>) =>
     LET input == preq[1].input
         data == presp[1].data
     IN /\ presp[1].status = 201
        /\ data.createdCount + Len(data.migrationErrors) = Len(input)
        /\ \A p \in products : p.lab \notin {NoId, BadId} /\ p.code # <<>>
        /\ \A p \in products : p.category # BadId
        /\ \A p \in products : hasCategoryPath => p.category # NoId
        /\ \A p, q \in products : p.code = q.code => p = q
        /\ \A i \in DOMAIN input :
              IF ~IdsOk(input[i]) \/ input[i].code = <<>>
              THEN ErrorsOn(1, input[i]) # {}
              ELSE \/ NewProduct(input[i]) \in products
                   \/ /\ ErrorsOn(1, input[i]) # {}
                      /\ \E p \in products : p.code = input[i].code

\* a list of two records: the first has no laboratory id and is listed in
\* migrationErrors, the second is persisted
FailuresIsolatedWitness ==
  /\ preq[1].kind = "confirm" /\ preq[1].pc = "done"
  /\ presp[1].status = 201
  /\ Len(preq[1].input) = 2
  /\ preq[1].input[1].lab = NoId
  /\ presp[1].data.createdCount = 1
  /\ Len(presp[1].data.migrationErrors) = 1
  /\ presp[1].data.migrationErrors[1].data = preq[1].input[1]
  /\ NewProduct(preq[1].input[2]) \in products

(***************************************************************************)
(* What a commit of clients reports and writes                             *)
(***************************************************************************)
\* C26: the createdCount of a commit that is answered 201 is the number of
\* client rows that the request added to the store, whatever list was sent
\* and whether the bulk insert succeeded or failed for duplicate keys
CreatedCountAsStated ==
  \A r \in Reqs :
     (req[r].kind = "confirm" /\ req[r].pc = "done" /\ resp[r].status = 201) =>
        resp[r].createdCount
           = Cardinality(hist[r].post) - Cardinality(hist[r].pre)

(***************************************************************************)
(* An analysis and the commit of what it reports as New                    *)
(***************************************************************************)
MaxAgree == 2

AgreeRecords ==
  {Raw(Str(<<"a", "b", "c", "-", "1", "2", "3">>), Num(CUIT2), Str(ACME)),
   Raw(Str(COD2), Str(CUIT1), Null),
   Raw(Str(COD2), Num(CUIT2), Str(ACME))}

AgreeBatches == SeqsUpTo(AgreeRecords, MaxAgree)

\* createNewClient fills the store; an upload is analyzed and the newClients
\* of the report are committed before anything else is written
NextAgree ==
  \/ /\ Free(1) /\ report = NoReport
     /\ \E body \in CreateBodies : CreateFind(1, body)
     /\ Quiet
  \/ CreateSave(1) /\ Quiet
  \/ /\ Free(1) /\ report = NoReport
     /\ \E rawClients \in AgreeBatches : AnalyzeClients(rawClients)
  \/ /\ Free(1) /\ Analyzed /\ clients = report.db
     /\ ConfirmStart(1, report.res.data.newClients)
     /\ Quiet
  \/ \E i \in req[1].todo : ConfirmInsertOne(1, i) /\ Quiet
  \/ ConfirmStoreFail(1) /\ Quiet
  \/ ConfirmRespond(1) /\ Quiet
  \/ Reset(1) /\ Quiet
  \/ Free(1) /\ Discard

SpecAgree == Init /\ [][NextAgree]_vars

\* the commit of the newClients of the report at hand has been answered,
\* and the store did not fail for another reason than a duplicate key
AgreedCommit ==
  /\ Analyzed
  /\ req[1].kind = "confirm" /\ req[1].pc = "done"
  /\ req[1].input = report.res.data.newClients
  /\ req[1].input # <<>>
  /\ req[1].errs = 0

\* C27: when the store is not modified between an analyzeClients call and
\* the confirmClientMigration call on the newClients of its report, the
\* commit reports createdCount = |newClients| and no duplicate, whatever
\* the client write operations have put into the store before
AgreementAsStated ==
  AgreedCommit =>
     /\ resp[1].status = 201
     /\ resp[1].createdCount = Len(report.res.data.newClients)
     /\ resp[1].duplicateClients = <<>>

\* C28: every client row that confirmClientMigration writes has a
\* cod_client of 3 upper-case letters followed by 3 digits and an
\* identiftri of 11 digits, whatever list the caller submits
CanonicalRowsAsStated ==
  \A r \in Reqs :
     req[r].kind = "confirm" =>
        \A row \in hist[r].post \ hist[r].pre :
           /\ CodShape(row.cod_client)
           /\ CuitShape(row.identiftri)

(***************************************************************************)
(* Migrated clients, their activation and their logins                     *)
(***************************************************************************)
NEWPASS == <<"n", "e", "w">>

\* an update that writes the other fields given
Other(id, rest) == [Upd(id, Absent, Absent, Absent) EXCEPT !.rest = rest]

\* updateClientSchema lets active through, no other field of the kind
ActivateBodies == {Other(id, [active |-> TRUE]) : id \in {1, 2}}

\* bulkUpdateClients writes every other field of an item
FlagItems ==
  {Other(id, rest) : id \in {1, 2},
                     rest \in {[active |-> TRUE],
                               [must_change_password |-> FALSE],
                               [active |-> TRUE,
                                must_change_password |-> FALSE]}}

FlagLists == SeqsUpTo(FlagItems, MaxBulk)

Passwords == {CUIT1, CUIT2, NEWPASS}

NextLogin ==
  \/ /\ Free(1)
     /\ \E newClients \in WriteLists : ConfirmStart(1, newClients)
     /\ Observe(1) /\ UNCHANGED last
  \/ \E i \in req[1].todo :
        ConfirmInsertOne(1, i) /\ Observe(1) /\ UNCHANGED last
  \/ ConfirmRespond(1) /\ Observe(1) /\ UNCHANGED last
  \/ /\ Free(1)
     /\ \E body \in ActivateBodies : UpdateFind(1, body)
     /\ Observe(1) /\ UNCHANGED last
  \/ UpdateSave(1) /\ Observe(1) /\ UNCHANGED last
  \/ /\ Free(1)
     /\ \E list \in FlagLists : BulkStart(1, list)
     /\ Observe(1) /\ UNCHANGED last
  \/ BulkFind(1) /\ Observe(1) /\ UNCHANGED last
  \/ BulkSave(1) /\ Observe(1) /\ UNCHANGED last
  \/ BulkRespond(1) /\ Observe(1) /\ UNCHANGED last
  \/ /\ Free(1)
     /\ \E username \in {CUIT1, CUIT2} : \E password \in Passwords :
           LoginClient(1, username, password)
     /\ Observe(1) /\ UNCHANGED last
  \/ \E newPassword \in Passwords \ {CUIT2} :
        ResetPassword(1, newPassword) /\ Observe(1) /\ UNCHANGED last
  \/ Reset(1) /\ Observe(1) /\ UNCHANGED last

SpecLogin == Init /\ [][NextLogin]_vars

\* request r is a login that was answered with a session token
SessionIssued(r) ==
  /\ req[r].kind = "login" /\ req[r].pc = "done"
  /\ resp[r].status = 200
  /\ resp[r].token.purpose = NO_PURPOSE

\* the client that the token of request r names
TokenClient(r) == CHOOSE row \in clients : row.id = resp[r].token.id

\* C30: loginClient issues a session token only to a client that is active
\* and whose must_change_password is false; a row created by
\* confirmClientMigration starts with active = false and
\* must_change_password = true; and no session token is issued on the
\* seeded credentials of such a row (its CUIT as password, the stored hash
\* being the one of the migration) before resetPassword has cleared the
\* flag, which replaces that hash
SeededLoginAsStated ==
  \A r \in Reqs :
     /\ SessionIssued(r) =>
           /\ TokenClient(r).active
           /\ ~TokenClient(r).must_change_password
           /\ TokenClient(r).password.salt # "migration"
     /\ req[r].kind = "confirm" =>
           \A row \in hist[r].post \ hist[r].pre :
              ~row.active /\ row.must_change_password

====
